---------------------------- MODULE Spec2Model ----------------------------
(***************************************************************************)
(* Model of the distributed job-coordination subsystem of the optimizer:   *)
(* the append-only result log (data_store.py), the job lifecycle built on  *)
(* it (job_manager.py), the git transport (git_utils.py) and the worker    *)
(* loop with its commit-then-verify claim protocol (worker.py).            *)
(*                                                                         *)
(* A Python dict is a TLA+ function with a string domain; a missing key is *)
(* a string outside the domain.  A log file is a sequence of lines.        *)
(***************************************************************************)
EXTENDS Integers, Sequences, FiniteSets, TLC

(***************************************************************************)
(* Bounds of the model.                                                    *)
(***************************************************************************)
NumWorkers == 2
NumJobs == 2

Workers == 1..NumWorkers
Jobs == 1..NumJobs

(***************************************************************************)
(* State.  Each specification of this module drives one group of variables *)
(* and leaves the others at their initial values.                          *)
(***************************************************************************)
\* The worker protocol: the shared remote and every worker's clone and loop.
VARIABLES remote, upstream, ahead, dirty, pc, target, attempts, loop, executed
\* One DataStore/JobManager over one log file and one artifact directory.
VARIABLES log, disk, ret
\* The logs of two workers, merged into log.
VARIABLES fileA, fileB

wvars == <<remote, upstream, ahead, dirty, pc, target, attempts, loop, executed>>
jvars == <<log, disk, ret>>
mvars == <<fileA, fileB>>
vars == <<wvars, jvars, mvars>>

\* The variables each group of actions leaves alone.
notW == <<jvars, mvars>>
notJ == <<wvars, mvars>>

(***************************************************************************)
(* Python values.                                                          *)
(***************************************************************************)
\* F applied to the value of x: a local variable bound to x once.
With(x, F(_)) == CHOOSE r \in {F(v) : v \in {x}} : TRUE

\* dict.get(key, default)
Get(d, k, default) == IF k \in DOMAIN d THEN d[k] ELSE default

\* A parameters value: a dict with its items, or a value of another type.
Dict(items) == [type |-> "dict", items |-> items]
NotADict == [type |-> "str", items |-> <<>>]
EmptyDict == Dict(<<>>)
ParamsOf(j) == Dict([x |-> j])

\* json.dumps(result) + "\n": one line of the log file.
json_dumps(result) == [kind |-> "json", obj |-> result]
\* A line json.loads rejects (JSONDecodeError), and a line that is blank
\* after strip().
CorruptLine == [kind |-> "corrupt"]
BlankLine == [kind |-> "blank"]
\* A line holding bytes that are not text in the file's encoding: reading
\* it from a file opened in text mode raises UnicodeDecodeError.
UndecodableLine == [kind |-> "undecodable"]

(***************************************************************************)
(* DataStore (data_store.py).                                              *)
(***************************************************************************)
\* The loop of load_history from line i on: the list it builds.  The
\* JSONDecodeError of a line is caught and the line skipped; the
\* UnicodeDecodeError of the read itself is not, and ends the loop.
RECURSIVE load_history_from(_, _)
load_history_from(file, i) ==
    IF i > Len(file) THEN <<>>
    ELSE LET line == file[i]
         IN  IF line.kind = "undecodable" THEN <<>>
             ELSE IF line.kind = "blank" THEN load_history_from(file, i + 1)
             ELSE IF line.kind = "json"
                  THEN <<line.obj>> \o load_history_from(file, i + 1)
                  ELSE load_history_from(file, i + 1)

\* TRUE when load_history raises instead of returning its list.
load_history_raises(file) ==
    \E i \in 1..Len(file) : file[i].kind = "undecodable"

\* DataStore.load_history: the parsed lines of the file, in file order.
load_history(file) == load_history_from(file, 1)

\* The defaults append_result fills in: id (a fresh uuid) and timestamp (now).
WithDefaults(result, fresh, now) ==
    LET r1 == IF "id" \in DOMAIN result THEN result
              ELSE [k \in DOMAIN result \cup {"id"} |->
                       IF k = "id" THEN fresh ELSE result[k]]
    IN  IF "timestamp" \in DOMAIN r1 THEN r1
        ELSE [k \in DOMAIN r1 \cup {"timestamp"} |->
                 IF k = "timestamp" THEN now ELSE r1[k]]

\* The two validation steps of append_result; TRUE when it raises ValueError.
Raises(result) ==
    \/ \E field \in {"id", "timestamp", "status", "parameters"} :
          field \notin DOMAIN result
    \/ result["parameters"].type # "dict"
    \/ DOMAIN result["parameters"].items = {}

\* An append that opens the file for writing instead of appending.
append_result_truncating(file, result, fresh, now) ==
    LET r == WithDefaults(result, fresh, now)
    IN  IF Raises(r)
        THEN [file |-> file, raised |-> TRUE]
        ELSE [file |-> <<json_dumps(r)>>, raised |-> FALSE]

\* An append that writes the line before it validates the record.
append_result_unvalidated(file, result, fresh, now) ==
    LET r == WithDefaults(result, fresh, now)
    IN  [file |-> Append(file, json_dumps(r)), raised |-> Raises(r)]

\* DataStore.append_result: the file after the call, and whether it raised.
append_result(file, result, fresh, now) ==
    LET r == WithDefaults(result, fresh, now)
    IN  IF Raises(r)
        THEN [file |-> file, raised |-> TRUE]
        ELSE [file |-> Append(file, json_dumps(r)), raised |-> FALSE]

(***************************************************************************)
(* Scoring (scoring.py) over integers.  An efficiency is in hundredths of  *)
(* a percent (99.95 is 9995) and RHO_AIR in thousandths (1.225 is 1225);   *)
(* the division of a pressure by the positive PSI_TO_PA, which keeps the   *)
(* order of the scores, is left out.                                       *)
(***************************************************************************)
TARGET_EFFICIENCY_PERCENT == 9995
RHO_AIR == 1225
\* float('inf'), above every pressure of the model.
Infinity == 1000000

NoMetrics == <<>>

\* A score that leaves the efficiency target out: every run without an error
\* is ranked by its pressure drop.
calculate_score_ignoring_target(metrics) ==
    IF DOMAIN metrics = {} \/ "error" \in DOMAIN metrics
    THEN <<-1, 0, 0, 0>>
    ELSE <<1, 1, -(Get(metrics, "delta_p", Infinity) * RHO_AIR),
           Get(metrics, "separation_efficiency", 0)>>

\* A score that ranks the runs meeting the target by efficiency first.
calculate_score_efficiency_first(metrics) ==
    IF DOMAIN metrics = {} \/ "error" \in DOMAIN metrics
    THEN <<-1, 0, 0, 0>>
    ELSE <<1,
           IF Get(metrics, "separation_efficiency", 0) >= TARGET_EFFICIENCY_PERCENT
           THEN 1 ELSE 0,
           Get(metrics, "separation_efficiency", 0),
           -(Get(metrics, "delta_p", Infinity) * RHO_AIR)>>

\* calculate_score: the tuple sorted on.
calculate_score(metrics) ==
    IF DOMAIN metrics = {} \/ "error" \in DOMAIN metrics
    THEN <<-1, 0, 0, 0>>
    ELSE LET efficiency_pct == Get(metrics, "separation_efficiency", 0)
             delta_p_kinematic == Get(metrics, "delta_p", Infinity)
             pressure_psi == delta_p_kinematic * RHO_AIR
         IN  IF efficiency_pct >= TARGET_EFFICIENCY_PERCENT
             THEN <<1, 1, -pressure_psi, efficiency_pct>>
             ELSE <<1, 0, efficiency_pct, -pressure_psi>>

\* Python's order of two tuples of the same length: a < b.
TupleLess(a, b) ==
    \E i \in 1..Len(a) :
        /\ a[i] < b[i]
        /\ \A k \in 1..(i - 1) : a[k] = b[k]

\* sorted(history, key=score, reverse=True): a stable sort, so records of
\* equal score keep their order.  Before(i, j): history[i] comes before
\* history[j] in the result.
SortedByScore(history) ==
    LET score(i) == calculate_score(Get(history[i], "metrics", NoMetrics))
        Before(i, j) == \/ TupleLess(score(j), score(i))
                        \/ score(i) = score(j) /\ i < j
        rank(i) == 1 + Cardinality({j \in 1..Len(history) : Before(j, i)})
    IN  [k \in 1..Len(history) |->
            history[CHOOSE i \in 1..Len(history) : rank(i) = k]]

\* DataStore.get_top_runs(n)
get_top_runs(file, n) ==
    With(SortedByScore(load_history(file)),
         LAMBDA sorted_runs :
            SubSeq(sorted_runs, 1, IF n < Len(sorted_runs) THEN n
                                   ELSE Len(sorted_runs)))

\* The artifact paths of a run that clean_artifacts looks at: the paths of
\* its images list and its artifact_stl_path.
ArtifactsOf(run) ==
    {Get(run, "images", <<>>)[i] : i \in 1..Len(Get(run, "images", <<>>))}
    \cup (IF "artifact_stl_path" \in DOMAIN run
          THEN {run["artifact_stl_path"]} ELSE {})

\* A cleanup that the first OSError of os.remove ends: nothing after it is
\* removed (here, nothing at all).
clean_artifacts_aborting(file, files, keep_runs, locked) ==
    LET keep_ids == {keep_runs[i]["id"] :
                        i \in {k \in 1..Len(keep_runs) : "id" \in DOMAIN keep_runs[k]}}
        history == load_history(file)
        doomed == UNION {ArtifactsOf(history[i]) :
                            i \in {k \in 1..Len(history) :
                                      Get(history[k], "id", 0) \notin keep_ids}}
    IN  IF doomed \cap locked \cap files # {} THEN files ELSE files \ doomed

\* DataStore.clean_artifacts(keep_runs): the artifact directory after the
\* call.  os.remove raises OSError on the paths in locked, which is caught.
clean_artifacts(file, files, keep_runs, locked) ==
    LET keep_ids == {keep_runs[i]["id"] :
                        i \in {k \in 1..Len(keep_runs) : "id" \in DOMAIN keep_runs[k]}}
        history == load_history(file)
        doomed == UNION {ArtifactsOf(history[i]) :
                            i \in {k \in 1..Len(history) :
                                      Get(history[k], "id", 0) \notin keep_ids}}
    IN  files \ (doomed \ locked)

(***************************************************************************)
(* JobManager (job_manager.py).                                            *)
(***************************************************************************)
\* latest_states[job_id] = entry, on the dict kept as its keys in insertion
\* order and its mapping; an entry whose id is missing or falsy is skipped.
Overwrite(latest_states, entry) ==
    LET job_id == Get(entry, "id", 0)
    IN  IF job_id # 0
        THEN [keys |-> IF job_id \in DOMAIN latest_states.map
                       THEN latest_states.keys
                       ELSE Append(latest_states.keys, job_id),
              map  |-> [k \in DOMAIN latest_states.map \cup {job_id} |->
                          IF k = job_id THEN entry ELSE latest_states.map[k]]]
        ELSE latest_states

\* The loop of _get_all_latest_states over history[1..n].
RECURSIVE LatestFold(_, _)
LatestFold(history, n) ==
    IF n = 0 THEN [keys |-> <<>>, map |-> <<>>]
    ELSE With(LatestFold(history, n - 1),
              LAMBDA latest_states : Overwrite(latest_states, history[n]))

\* A replay that keeps, for each id, the record of the greatest timestamp.
latest_states_by_timestamp(file) ==
    LET history == load_history(file)
        ids == {Get(history[i], "id", 0) : i \in 1..Len(history)} \ {0}
        newest(j) == CHOOSE i \in 1..Len(history) :
            /\ Get(history[i], "id", 0) = j
            /\ \A k \in 1..Len(history) :
                   Get(history[k], "id", 0) = j
                       => \/ history[k]["timestamp"] < history[i]["timestamp"]
                          \/ history[k]["timestamp"] = history[i]["timestamp"] /\ k <= i
    IN  [keys |-> <<>>, map |-> [j \in ids |-> history[newest(j)]]]

\* A replay that folds only the last two records of the history.
latest_states_of_tail(file) ==
    With(load_history(file),
         LAMBDA history :
            With(IF Len(history) <= 2 THEN history
                 ELSE SubSeq(history, Len(history) - 1, Len(history)),
                 LAMBDA tail : LatestFold(tail, Len(tail))))

\* A replay that keeps, for each id, its first record.
latest_states_never_overwritten(file) ==
    LET history == load_history(file)
        ids == {Get(history[i], "id", 0) : i \in 1..Len(history)} \ {0}
        oldest(j) == CHOOSE i \in 1..Len(history) :
            /\ Get(history[i], "id", 0) = j
            /\ \A k \in 1..(i - 1) : Get(history[k], "id", 0) # j
    IN  [keys |-> SelectSeq([i \in 1..Len(history) |-> Get(history[i], "id", 0)],
                            LAMBDA j : j # 0),
         map |-> [j \in ids |-> history[oldest(j)]]]

\* JobManager._get_all_latest_states
get_all_latest_states(file) ==
    With(load_history(file), LAMBDA history : LatestFold(history, Len(history)))

\* JobManager._get_job_state: states.get(job_id), None being NoState.
NoState == [status |-> "None"]
get_job_state(file, job_id) ==
    With(get_all_latest_states(file),
         LAMBDA states : IF job_id \in DOMAIN states.map
                         THEN states.map[job_id] ELSE NoState)

\* Every queued record of the history, whatever follows it.
get_pending_jobs_any_queued(file) ==
    SelectSeq(load_history(file), LAMBDA e : Get(e, "status", "") = "queued")

\* JobManager.get_pending_jobs without a filter: the latest states that are
\* queued, in the order of the dict's values.
get_pending_jobs(file) ==
    With(get_all_latest_states(file),
         LAMBDA all_states :
            With(SelectSeq(all_states.keys,
                           LAMBDA k : all_states.map[k]["status"] = "queued"),
                 LAMBDA ids : [i \in 1..Len(ids) |-> all_states.map[ids[i]]]))

\* A filter_func: None, or a predicate over the job record, here on the
\* value of its parameter x.
NoFilter == [given |-> FALSE, accepts |-> {}]
FilterOn(xs) == [given |-> TRUE, accepts |-> xs]
filter_func_of(filter_func, job) ==
    job["parameters"].items["x"] \in filter_func.accepts

\* JobManager.get_pending_jobs(filter_func)
get_pending_jobs_with(file, filter_func) ==
    With(get_pending_jobs(file),
         LAMBDA pending :
            IF filter_func.given
            THEN SelectSeq(pending, LAMBDA job : filter_func_of(filter_func, job))
            ELSE pending)

\* A create_job that takes the id of the last job of the log when there is
\* one.
create_job_reusing_id(file, parameters, fresh, now) ==
    With(load_history(file),
         LAMBDA history :
            With(IF history = <<>> THEN fresh
                 ELSE Get(history[Len(history)], "id", fresh),
                 LAMBDA id :
                    append_result(file,
                        [id |-> id, status |-> "queued",
                         parameters |-> parameters],
                        id, now)))

\* JobManager.create_job
create_job(file, parameters, fresh, now) ==
    append_result(file,
        [id |-> fresh, status |-> "queued", parameters |-> parameters],
        fresh, now)

\* A claim that does not look at the status of the job.
claim_job_unchecked(file, job_id, worker_id, now) ==
    With(get_job_state(file, job_id),
         LAMBDA latest :
            IF latest = NoState
            THEN [file |-> file, ret |-> FALSE]
            ELSE [file |-> append_result(file,
                              [id |-> job_id, status |-> "running",
                               worker_id |-> worker_id,
                               parameters |-> latest["parameters"]],
                              0, now).file,
                  ret |-> TRUE])

\* JobManager.claim_job: the file after the call and the value returned.
claim_job(file, job_id, worker_id, now) ==
    With(get_job_state(file, job_id),
         LAMBDA latest :
            IF latest = NoState \/ latest["status"] # "queued"
            THEN [file |-> file, ret |-> FALSE]
            ELSE [file |-> append_result(file,
                              [id |-> job_id, status |-> "running",
                               worker_id |-> worker_id,
                               parameters |-> latest["parameters"]],
                              0, now).file,
                  ret |-> TRUE])

\* A completion that is refused unless the job is running.
complete_job_only_running(file, job_id, metrics, now) ==
    With(get_job_state(file, job_id),
         LAMBDA latest :
            IF latest = NoState \/ latest["status"] # "running"
            THEN [file |-> file, ret |-> FALSE]
            ELSE [file |-> append_result(file,
                              [id |-> job_id, status |-> "completed",
                               parameters |-> latest["parameters"],
                               metrics |-> metrics],
                              0, now).file,
                  ret |-> TRUE])

\* A completion that carries the parameters of the first record of the log.
complete_job_first_params(file, job_id, metrics, now) ==
    With(get_job_state(file, job_id),
         LAMBDA latest :
            IF latest = NoState
            THEN [file |-> file, ret |-> FALSE]
            ELSE [file |-> append_result(file,
                              [id |-> job_id, status |-> "completed",
                               parameters |-> load_history(file)[1]["parameters"],
                               metrics |-> metrics],
                              0, now).file,
                  ret |-> TRUE])

\* JobManager.complete_job
complete_job(file, job_id, metrics, now) ==
    With(get_job_state(file, job_id),
         LAMBDA latest :
            IF latest = NoState
            THEN [file |-> file, ret |-> FALSE]
            ELSE [file |-> append_result(file,
                              [id |-> job_id, status |-> "completed",
                               parameters |-> latest["parameters"],
                               metrics |-> metrics],
                              0, now).file,
                  ret |-> TRUE])

\* JobManager.fail_job
fail_job(file, job_id, error, now) ==
    With(get_job_state(file, job_id),
         LAMBDA latest :
            IF latest = NoState
            THEN [file |-> file, ret |-> FALSE]
            ELSE [file |-> append_result(file,
                              [id |-> job_id, status |-> "failed",
                               parameters |-> latest["parameters"],
                               error |-> error],
                              0, now).file,
                  ret |-> TRUE])

(***************************************************************************)
(* Claim verification (worker.py).                                         *)
(***************************************************************************)
\* The loop of verify_claim_leadership over job_events[i..]: it returns at
\* the first event whose status is running.
RECURSIVE FirstClaim(_, _, _)
FirstClaim(job_events, i, worker_id) ==
    IF i > Len(job_events) THEN FALSE
    ELSE IF Get(job_events[i], "status", "") = "running"
         THEN Get(job_events[i], "worker_id", 0) = worker_id
         ELSE FirstClaim(job_events, i + 1, worker_id)

\* A verification that accepts any running record of the worker.
verify_any_claim(file, job_id, worker_id) ==
    \E i \in 1..Len(load_history(file)) :
        /\ Get(load_history(file)[i], "id", 0) = job_id
        /\ Get(load_history(file)[i], "status", "") = "running"
        /\ Get(load_history(file)[i], "worker_id", 0) = worker_id

\* A verification that takes the running record of the earliest timestamp
\* for the canonical claim.
verify_earliest_claim(file, job_id, worker_id) ==
    LET history == load_history(file)
        job_events == SelectSeq(history, LAMBDA e : Get(e, "id", 0) = job_id)
        claims == {i \in 1..Len(job_events) :
                      Get(job_events[i], "status", "") = "running"}
    IN  \E i \in claims :
            /\ \A k \in claims :
                   job_events[i]["timestamp"] <= job_events[k]["timestamp"]
            /\ Get(job_events[i], "worker_id", 0) = worker_id

\* A verification that takes the last running record for the canonical claim.
verify_latest_claim(file, job_id, worker_id) ==
    LET history == load_history(file)
        job_events == SelectSeq(history, LAMBDA e : Get(e, "id", 0) = job_id)
        claims == {i \in 1..Len(job_events) :
                      Get(job_events[i], "status", "") = "running"}
    IN  \E i \in claims :
            /\ \A k \in claims : k <= i
            /\ Get(job_events[i], "worker_id", 0) = worker_id

verify_claim_leadership(file, job_id, worker_id) ==
    LET history == load_history(file)
        job_events == SelectSeq(history, LAMBDA e : Get(e, "id", 0) = job_id)
    IN  FirstClaim(job_events, 1, worker_id)

(***************************************************************************)
(* The worker loop over the git transport (worker.py, git_utils.py).       *)
(*                                                                         *)
(* remote is the log file at the head of the shared remote.  A worker's    *)
(* clone is the remote history it last fetched (upstream), its unpushed    *)
(* commits (ahead) and its uncommitted lines (dirty); its working file is  *)
(* the three in this order.  Every commit of a worker appends lines to the *)
(* one log file, so a history is the sequence of its lines.                *)
(***************************************************************************)
\* git_push_with_retry(max_retries=3)
max_retries == 3

\* The log file in worker w's working tree.
File(w) == upstream[w] \o ahead[w] \o dirty[w]

\* The clock of worker w's machine: the clocks of the workers disagree.
Now(w) == NumWorkers + 1 - w

MetricsOk == [separation_efficiency |-> 50, delta_p |-> 1]
MetricsError == [error |-> "solver_failed"]

\* The other groups of variables at rest.
JIdle == log = <<>> /\ disk = {} /\ ret = [op |-> "none"]
MIdle == fileA = <<>> /\ fileB = <<>>
WIdle ==
    /\ remote = <<>>
    /\ upstream = [w \in Workers |-> <<>>]
    /\ ahead = [w \in Workers |-> <<>>]
    /\ dirty = [w \in Workers |-> <<>>]
    /\ pc = [w \in Workers |-> "done"]
    /\ target = [w \in Workers |-> 0]
    /\ attempts = [w \in Workers |-> 0]
    /\ loop = [w \in Workers |-> FALSE]
    /\ executed = [j \in Jobs |-> {}]

QueuedEntry(j) ==
    json_dumps([id |-> j, status |-> "queued", parameters |-> ParamsOf(j),
                timestamp |-> 0])

WStart(loops) ==
    /\ remote = [j \in Jobs |-> QueuedEntry(j)]
    /\ upstream = [w \in Workers |-> remote]
    /\ ahead = [w \in Workers |-> <<>>]
    /\ dirty = [w \in Workers |-> <<>>]
    /\ pc = [w \in Workers |-> "sync"]
    /\ target = [w \in Workers |-> 0]
    /\ attempts = [w \in Workers |-> 0]
    /\ loop = loops
    /\ executed = [j \in Jobs |-> {}]

\* A pull that a running record of the worker which is not the first of its
\* job blocks.
PullBlockedByLostClaim(w) ==
    /\ dirty[w] = <<>>
    /\ target[w] = 0 \/ verify_claim_leadership(upstream[w], target[w], w)

\* git pull --rebase succeeds: the fetched remote history, with the unpushed
\* commits replayed on top of it.  git refuses to rebase a dirty tree.
\* The clone of worker w: the history it fetched last, its unpushed commits
\* and the uncommitted lines of its working tree.
Clone(w) == [upstream |-> upstream[w], ahead |-> ahead[w], dirty |-> dirty[w]]
SetClone(w, clone) ==
    /\ upstream' = [upstream EXCEPT ![w] = clone.upstream]
    /\ ahead' = [ahead EXCEPT ![w] = clone.ahead]
    /\ dirty' = [dirty EXCEPT ![w] = clone.dirty]

\* git pull --rebase stopped at a conflict: HEAD is at the fetched history,
\* the commit being replayed is in the working tree between conflict
\* markers, and ORIG_HEAD remembers the branch as it was.
RebaseStopped(clone, remote_log) ==
    [upstream |-> remote_log, ahead |-> <<>>,
     dirty |-> <<CorruptLine>> \o clone.ahead \o <<CorruptLine>>,
     orig_head |-> clone]

\* git rebase --abort: the branch and the working tree go back to ORIG_HEAD;
\* with no rebase in progress the command fails and changes nothing
\* (check=False).
rebase_abort(state) ==
    IF "orig_head" \in DOMAIN state THEN state.orig_head ELSE state

\* The ways git pull --rebase can fail on a clone: the fetch fails or the
\* pull is refused (nothing is touched), or replaying the unpushed commits
\* on a remote that moved stops at a conflict.
PullFailures(clone, remote_log) ==
    {"fetch_failed"} \cup
    (IF clone.dirty = <<>> /\ clone.ahead # <<>> /\ remote_log # clone.upstream
     THEN {"conflict"} ELSE {})

\* A pull that leaves the stopped rebase as it is.
git_pull_rebase_no_abort(clone, remote_log, outcome) ==
    IF outcome = "ok" /\ clone.dirty = <<>>
    THEN [success |-> TRUE,
          clone |-> [upstream |-> remote_log, ahead |-> clone.ahead,
                     dirty |-> <<>>]]
    ELSE IF outcome = "conflict"
         THEN [success |-> FALSE,
               clone |-> With(RebaseStopped(clone, remote_log),
                              LAMBDA st : [upstream |-> st.upstream,
                                           ahead |-> st.ahead,
                                           dirty |-> st.dirty])]
         ELSE [success |-> FALSE, clone |-> clone]

\* git_utils.py 37-47: git_pull_rebase.  A pull that succeeds replays the
\* unpushed commits on the fetched history; one that fails is followed by
\* git rebase --abort.
git_pull_rebase(clone, remote_log, outcome) ==
    IF outcome = "ok" /\ clone.dirty = <<>>
    THEN [success |-> TRUE,
          clone |-> [upstream |-> remote_log, ahead |-> clone.ahead,
                     dirty |-> <<>>]]
    ELSE IF outcome = "conflict"
         THEN [success |-> FALSE,
               clone |-> rebase_abort(RebaseStopped(clone, remote_log))]
         ELSE [success |-> FALSE, clone |-> rebase_abort(clone)]

PullOk(w) == dirty[w] = <<>>
Pulled(w) == [upstream EXCEPT ![w] = remote]

\* worker.py 69-73: 1. Sync.
SyncOk(w) ==
    /\ pc[w] = "sync"
    /\ PullOk(w)
    /\ upstream' = Pulled(w)
    /\ pc' = [pc EXCEPT ![w] = "discover"]
    /\ UNCHANGED <<remote, ahead, dirty, target, attempts, loop, executed>>
    /\ UNCHANGED notW

\* A loop that goes on to the queue after a failed pull.
SyncFailIgnored(w) ==
    /\ pc[w] = "sync"
    /\ pc' = [pc EXCEPT ![w] = "discover"]
    /\ UNCHANGED <<remote, upstream, ahead, dirty, target, attempts, loop, executed>>
    /\ UNCHANGED notW

\* The pull fails (and the rebase is aborted): sleep and start over.
SyncFail(w) ==
    /\ pc[w] = "sync"
    /\ \E outcome \in PullFailures(Clone(w), remote) :
          SetClone(w, git_pull_rebase(Clone(w), remote, outcome).clone)
    /\ pc' = [pc EXCEPT ![w] = "sync"]
    /\ UNCHANGED <<remote, target, attempts, loop, executed>>
    /\ UNCHANGED notW

\* worker.py 76-87: 2. Check Queue, and the choice of pending_jobs[0].
Discover(w) ==
    /\ pc[w] = "discover"
    /\ LET pending_jobs == get_pending_jobs(File(w))
       IN  IF pending_jobs = <<>>
           THEN /\ pc' = [pc EXCEPT ![w] = IF loop[w] THEN "sync" ELSE "done"]
                /\ UNCHANGED target
           ELSE /\ target' = [target EXCEPT ![w] = pending_jobs[1]["id"]]
                /\ pc' = [pc EXCEPT ![w] = "claim"]
    /\ UNCHANGED <<remote, upstream, ahead, dirty, attempts, loop, executed>>
    /\ UNCHANGED notW

\* The lines a JobManager call on worker w's file adds to its working tree.
Added(w, file) == dirty[w] \o SubSeq(file, Len(File(w)) + 1, Len(file))

\* worker.py 90: manager.claim_job(job_id, worker_id), its result unused.
Claim(w) ==
    /\ pc[w] = "claim"
    /\ dirty' = [dirty EXCEPT ![w] =
           With(claim_job(File(w), target[w], w, Now(w)),
                LAMBDA r : Added(w, r.file))]
    /\ pc' = [pc EXCEPT ![w] = "commit_claim"]
    /\ UNCHANGED <<remote, upstream, ahead, target, attempts, loop, executed>>
    /\ UNCHANGED notW

\* git_commit succeeds: the uncommitted lines become a commit ("nothing to
\* commit" counts as success).
Committed(w) == [ahead EXCEPT ![w] = ahead[w] \o dirty[w]]

\* worker.py 93: Commit Claim, the commit succeeds.
CommitClaimOk(w) ==
    /\ pc[w] = "commit_claim"
    /\ ahead' = Committed(w)
    /\ dirty' = [dirty EXCEPT ![w] = <<>>]
    /\ pc' = [pc EXCEPT ![w] = "push_claim"]
    /\ attempts' = [attempts EXCEPT ![w] = 0]
    /\ UNCHANGED <<remote, upstream, target, loop, executed>>
    /\ UNCHANGED notW

\* worker.py 93-95: git_commit returns False; the loop starts over with the
\* claim left uncommitted in the working tree.
CommitClaimFail(w) ==
    /\ pc[w] = "commit_claim"
    /\ pc' = [pc EXCEPT ![w] = "sync"]
    /\ UNCHANGED <<remote, upstream, ahead, dirty, target, attempts, loop, executed>>
    /\ UNCHANGED notW

\* A push that is accepted whatever the remote holds (git push --force).
ForcedPush(w) == TRUE

\* git push is accepted only as a fast-forward: the remote is still the
\* history this clone fetched last.
FastForward(w) == upstream[w] = remote

\* A loop that goes on to verify its claim whatever the push returned.
AfterPushIgnoringFailure(w, phase, ok) ==
    IF phase = "claim"
    THEN "verify"
    ELSE (IF loop[w] THEN "sync" ELSE "done")

\* Where the loop goes after git_push_with_retry returned ok in a phase.
AfterPush(w, phase, ok) ==
    IF phase = "claim"
    THEN (IF ok THEN "verify" ELSE "sync")
    ELSE (IF loop[w] THEN "sync" ELSE "done")

\* git_utils.py 79-84: a push attempt of git_push_with_retry that succeeds.
PushOk(w, phase) ==
    /\ pc[w] = "push_" \o phase
    /\ FastForward(w)
    /\ remote' = upstream[w] \o ahead[w]
    /\ upstream' = [upstream EXCEPT ![w] = upstream[w] \o ahead[w]]
    /\ ahead' = [ahead EXCEPT ![w] = <<>>]
    /\ pc' = [pc EXCEPT ![w] = AfterPush(w, phase, TRUE)]
    /\ UNCHANGED <<dirty, target, attempts, loop, executed>>
    /\ UNCHANGED notW

\* git_utils.py 86-90: a push attempt that fails (rejected as not a
\* fast-forward, or a failure of the transport).
PushFail(w, phase) ==
    /\ pc[w] = "push_" \o phase
    /\ pc' = [pc EXCEPT ![w] = "repull_" \o phase]
    /\ UNCHANGED <<remote, upstream, ahead, dirty, target, attempts, loop, executed>>
    /\ UNCHANGED notW

\* git_utils.py 90-97: the pull --rebase after a failed push succeeds; the
\* loop goes to its next attempt, or ends when max_retries are used up.
RepullOk(w, phase) ==
    /\ pc[w] = "repull_" \o phase
    /\ PullOk(w)
    /\ upstream' = Pulled(w)
    /\ attempts' = [attempts EXCEPT ![w] = attempts[w] + 1]
    /\ pc' = [pc EXCEPT ![w] =
          IF attempts[w] + 1 < max_retries THEN "push_" \o phase
          ELSE AfterPush(w, phase, FALSE)]
    /\ UNCHANGED <<remote, ahead, dirty, target, loop, executed>>
    /\ UNCHANGED notW

\* git_utils.py 91-94: the pull --rebase fails; git_push_with_retry gives up.
RepullFail(w, phase) ==
    /\ pc[w] = "repull_" \o phase
    /\ \E outcome \in PullFailures(Clone(w), remote) :
          SetClone(w, git_pull_rebase(Clone(w), remote, outcome).clone)
    /\ pc' = [pc EXCEPT ![w] = AfterPush(w, phase, FALSE)]
    /\ UNCHANGED <<remote, target, attempts, loop, executed>>
    /\ UNCHANGED notW

\* worker.py 104-108: 4. Verify Claim.
Verify(w) ==
    /\ pc[w] = "verify"
    /\ IF verify_claim_leadership(File(w), target[w], w)
       THEN /\ pc' = [pc EXCEPT ![w] = "execute"]
            /\ executed' = [executed EXCEPT ![target[w]] = @ \cup {w}]
       ELSE /\ pc' = [pc EXCEPT ![w] = "sync"]
            /\ UNCHANGED executed
    /\ UNCHANGED <<remote, upstream, ahead, dirty, target, attempts, loop>>
    /\ UNCHANGED notW

\* What run_simulation can end with: metrics, metrics that carry an error,
\* or an exception.
Outcomes ==
    {[kind |-> "metrics", metrics |-> MetricsOk],
     [kind |-> "metrics", metrics |-> MetricsError],
     [kind |-> "raised", metrics |-> NoMetrics]}

\* A loop that lets the exception of a collaborator through: no record.
run_and_report_uncaught(file, job_id, outcome, now) ==
    IF outcome.kind = "raised"
    THEN [file |-> file, ret |-> FALSE]
    ELSE IF Get(outcome.metrics, "error", "") # ""
         THEN fail_job(file, job_id, outcome.metrics["error"], now)
         ELSE complete_job(file, job_id, outcome.metrics, now)

\* worker.py 114-133: the try block around run_simulation and the record
\* written for what it ended with.
run_and_report(file, job_id, outcome, now) ==
    IF outcome.kind = "raised"
    THEN fail_job(file, job_id, "exception", now)
    ELSE IF Get(outcome.metrics, "error", "") # ""
         THEN fail_job(file, job_id, outcome.metrics["error"], now)
         ELSE complete_job(file, job_id, outcome.metrics, now)

\* worker.py 114-133: 5. Run Simulation, and the terminal record: metrics
\* without an error, metrics with an error, or an exception.
Execute(w) ==
    /\ pc[w] = "execute"
    /\ \E outcome \in Outcomes :
          dirty' = [dirty EXCEPT ![w] =
              With(run_and_report(File(w), target[w], outcome, Now(w)),
                   LAMBDA r : Added(w, r.file))]
    /\ pc' = [pc EXCEPT ![w] = "commit_result"]
    /\ UNCHANGED <<remote, upstream, ahead, target, attempts, loop, executed>>
    /\ UNCHANGED notW

\* worker.py 137-138: 6. Commit Results, the commit succeeds.
CommitResultOk(w) ==
    /\ pc[w] = "commit_result"
    /\ ahead' = Committed(w)
    /\ dirty' = [dirty EXCEPT ![w] = <<>>]
    /\ pc' = [pc EXCEPT ![w] = "push_result"]
    /\ attempts' = [attempts EXCEPT ![w] = 0]
    /\ UNCHANGED <<remote, upstream, target, loop, executed>>
    /\ UNCHANGED notW

\* worker.py 138-143: a failed commit of the result is only reported; the
\* push is attempted all the same.
CommitResultFail(w) ==
    /\ pc[w] = "commit_result"
    /\ pc' = [pc EXCEPT ![w] = "push_result"]
    /\ attempts' = [attempts EXCEPT ![w] = 0]
    /\ UNCHANGED <<remote, upstream, ahead, dirty, target, loop, executed>>
    /\ UNCHANGED notW

WNext ==
    \E w \in Workers :
        \/ SyncOk(w)
        \/ SyncFail(w)
        \/ Discover(w)
        \/ Claim(w)
        \/ CommitClaimOk(w)
        \/ CommitClaimFail(w)
        \/ PushOk(w, "claim")
        \/ PushFail(w, "claim")
        \/ RepullOk(w, "claim")
        \/ RepullFail(w, "claim")
        \/ Verify(w)
        \/ Execute(w)
        \/ CommitResultOk(w)
        \/ CommitResultFail(w)
        \/ PushOk(w, "result")
        \/ PushFail(w, "result")
        \/ RepullOk(w, "result")
        \/ RepullFail(w, "result")

\* Every job is queued on the remote; each worker runs once or in loop mode.
Init ==
    /\ \E loops \in [Workers -> BOOLEAN] : WStart(loops)
    /\ JIdle
    /\ MIdle

Spec == Init /\ [][WNext]_vars

\* The steps of worker w when git commit does not fail.
WorkerStep(w) ==
    \/ SyncOk(w)
    \/ SyncFail(w)
    \/ Discover(w)
    \/ Claim(w)
    \/ CommitClaimOk(w)
    \/ PushOk(w, "claim")
    \/ PushFail(w, "claim")
    \/ RepullOk(w, "claim")
    \/ RepullFail(w, "claim")
    \/ Verify(w)
    \/ Execute(w)
    \/ CommitResultOk(w)
    \/ PushOk(w, "result")
    \/ PushFail(w, "result")
    \/ RepullOk(w, "result")
    \/ RepullFail(w, "result")

FairNext == \E w \in Workers : WorkerStep(w)

\* Loop-mode workers that never crash, over a transport that keeps working:
\* every worker keeps taking steps, and a pull or a push that is attempted
\* again and again eventually succeeds.
Fairness ==
    \A w \in Workers :
        /\ WF_vars(WorkerStep(w))
        /\ SF_vars(SyncOk(w))
        /\ SF_vars(PushOk(w, "claim"))
        /\ SF_vars(PushOk(w, "result"))
        /\ SF_vars(RepullOk(w, "claim"))
        /\ SF_vars(RepullOk(w, "result"))

\* All workers run in loop mode and the shared log holds one queued job.
FairInit ==
    /\ remote = <<QueuedEntry(1)>>
    /\ upstream = [w \in Workers |-> remote]
    /\ ahead = [w \in Workers |-> <<>>]
    /\ dirty = [w \in Workers |-> <<>>]
    /\ pc = [w \in Workers |-> "sync"]
    /\ target = [w \in Workers |-> 0]
    /\ attempts = [w \in Workers |-> 0]
    /\ loop = [w \in Workers |-> TRUE]
    /\ executed = [j \in Jobs |-> {}]
    /\ JIdle
    /\ MIdle

FairSpec == FairInit /\ [][FairNext]_vars /\ Fairness

\* git_utils.py 86-88: a push attempt that fails with a message holding the
\* text "up-to-date" (git prints the address of the remote in it):
\* git_push_with_retry returns True, nothing was pushed or fetched.
PushFailUpToDate(w, phase) ==
    /\ pc[w] = "push_" \o phase
    /\ pc' = [pc EXCEPT ![w] = AfterPush(w, phase, TRUE)]
    /\ UNCHANGED <<remote, upstream, ahead, dirty, target, attempts, loop, executed>>
    /\ UNCHANGED notW

\* The worker loop over a remote whose failure messages may hold that text.
PushNext ==
    \/ WNext
    \/ \E w \in Workers : PushFailUpToDate(w, "claim")
    \/ \E w \in Workers : PushFailUpToDate(w, "result")

PushSpec == FairInit /\ [][PushNext]_vars

\* The steps of worker w after its Sync step, when git commit does not fail.
AfterSync(w) ==
    \/ Discover(w)
    \/ Claim(w)
    \/ CommitClaimOk(w)
    \/ PushOk(w, "claim")
    \/ PushFail(w, "claim")
    \/ RepullOk(w, "claim")
    \/ RepullFail(w, "claim")
    \/ Verify(w)
    \/ Execute(w)
    \/ CommitResultOk(w)
    \/ PushOk(w, "result")
    \/ PushFail(w, "result")
    \/ RepullOk(w, "result")
    \/ RepullFail(w, "result")

\* Workers that never crash, over a transport that may stay out of reach:
\* every worker keeps taking the steps that follow a sync, and a pull-rebase
\* at the Sync step may fail every time.
TermSpec == Init /\ [][WNext]_vars /\ \A w \in Workers : WF_vars(AfterSync(w))

\* The process of worker w is killed anywhere in its loop; its clone stays
\* as it is and is never used again.
Kill(w) ==
    /\ pc[w] \notin {"done", "killed"}
    /\ pc' = [pc EXCEPT ![w] = "killed"]
    /\ UNCHANGED <<remote, upstream, ahead, dirty, target, attempts, loop, executed>>
    /\ UNCHANGED notW

\* The worker loops with workers that may be killed.
KillNext ==
    \/ WNext
    \/ \E w \in Workers : Kill(w)

\* Every job is queued on the remote; all workers run in loop mode.
KillInit ==
    /\ WStart([w \in Workers |-> TRUE])
    /\ JIdle
    /\ MIdle

KillSpec == KillInit /\ [][KillNext]_vars

\* The shared log after workers 1 and 2 raced for job 1: both running records
\* were pushed, worker 1's first.
RaceLog(n) ==
    With(claim_job([j \in Jobs |-> QueuedEntry(j)], 1, 1, Now(1)).file,
         LAMBDA first :
            IF n = 1 THEN first
            ELSE first \o <<claim_job([j \in Jobs |-> QueuedEntry(j)],
                                     1, 2, Now(2)).file[NumJobs + 1]>>)

\* Loop-mode workers, workers 1 and 2 about to verify their claims of job 1
\* after worker 2's push was rejected once; job 2 is queued.
RaceInit ==
    /\ remote = RaceLog(2)
    /\ upstream = [w \in Workers |->
                      IF w = 1 THEN RaceLog(1)
                      ELSE IF w = 2 THEN RaceLog(2)
                      ELSE [j \in Jobs |-> QueuedEntry(j)]]
    /\ ahead = [w \in Workers |-> <<>>]
    /\ dirty = [w \in Workers |-> <<>>]
    /\ pc = [w \in Workers |-> IF w \in {1, 2} THEN "verify" ELSE "sync"]
    /\ target = [w \in Workers |-> IF w \in {1, 2} THEN 1 ELSE 0]
    /\ attempts = [w \in Workers |-> IF w = 2 THEN 1 ELSE 0]
    /\ loop = [w \in Workers |-> TRUE]
    /\ executed = [j \in Jobs |-> {}]
    /\ JIdle
    /\ MIdle

\* Every worker keeps taking steps, and a sync that is attempted again and
\* again eventually succeeds; pushes may fail for ever.
SyncFairness ==
    \A w \in Workers : WF_vars(WorkerStep(w)) /\ SF_vars(SyncOk(w))

RaceSpec == RaceInit /\ [][FairNext]_vars /\ SyncFairness

(***************************************************************************)
(* Properties of the worker protocol.                                      *)
(***************************************************************************)
\* The records of job j in a log file, in file order.
EventsOf(file, j) ==
    SelectSeq(load_history(file), LAMBDA e : Get(e, "id", 0) = j)

IsTerminal(e) == e["status"] \in {"completed", "failed"}

HasTerminal(file, j) ==
    \E i \in 1..Len(EventsOf(file, j)) : IsTerminal(EventsOf(file, j)[i])

\* The worker ids of the running records of job j in a file.
Claimants(file, j) ==
    {EventsOf(file, j)[i]["worker_id"] :
        i \in {k \in 1..Len(EventsOf(file, j)) :
                  EventsOf(file, j)[k]["status"] = "running"}}

C5_TerminalStaysLatest ==
    \A j \in Jobs :
        HasTerminal(remote, j) => IsTerminal(get_job_state(remote, j))

\* C6 (as claimed): every queued job eventually has a completed or failed
\* record in the shared log.
C6_NoJobLost ==
    \A j \in Jobs : (EventsOf(remote, j) # <<>>) ~> HasTerminal(remote, j)

(***************************************************************************)
(* One DataStore and one JobManager over one log file: any sequence of     *)
(* their calls.                                                            *)
(***************************************************************************)
\* The longest log of this specification.
MaxLog == 3
\* The largest n of a top-n query.
MaxTop == 2

ImagePath == "run.png"
StlPath == "run.stl"
Paths == {ImagePath, StlPath}

MetricsMet == [separation_efficiency |-> 9996, delta_p |-> 1]
MetricsChoices == {MetricsOk, MetricsMet, MetricsError}

\* The filters handed to get_pending_jobs: none, and one on the parameters.
Filters == {NoFilter, FilterOn({NumJobs})}

\* What callers hand to append_result: records of completed runs with their
\* artifacts, as main.py's run_data (id and timestamp left to the defaults
\* of append_result), and records that fail validation.
RunData ==
    { [status |-> "completed", parameters |-> ParamsOf(1), metrics |-> MetricsMet,
       images |-> <<ImagePath>>, artifact_stl_path |-> StlPath],
      [status |-> "completed", parameters |-> ParamsOf(2), metrics |-> MetricsOk,
       images |-> <<ImagePath>>] }
InvalidRecords ==
    { [parameters |-> ParamsOf(1)],
      [status |-> "queued"],
      [status |-> "queued", parameters |-> EmptyDict],
      [status |-> "queued", parameters |-> NotADict] }

\* The ids of the records of a file.
IdsOf(file) ==
    {Get(load_history(file)[i], "id", 0) : i \in 1..Len(load_history(file))} \ {0}

\* uuid.uuid4(): an id no record of the log carries.
FreshId(file) ==
    IF IdsOf(file) = {} THEN 1
    ELSE 1 + CHOOSE m \in IdsOf(file) : \A k \in IdsOf(file) : k <= m

\* datetime.now() of the machine the store runs on.
StoreNow(file) == Len(file) + 1

\* store.append_result(result)
AppendResult(result) ==
    /\ Len(log) < MaxLog
    /\ LET r == With(append_result(log, result, FreshId(log), StoreNow(log)), LAMBDA v : v)
       IN  /\ log' = r.file
           /\ ret' = [op |-> "append_result", raised |-> r.raised,
                      arg |-> result]
    /\ UNCHANGED disk
    /\ UNCHANGED notJ

\* manager.create_job(parameters)
CreateJob(parameters) ==
    /\ Len(log) < MaxLog
    /\ LET r == With(create_job(log, parameters, FreshId(log), StoreNow(log)), LAMBDA v : v)
       IN  /\ log' = r.file
           /\ ret' = [op |-> "create_job", raised |-> r.raised,
                      arg |-> parameters, value |-> FreshId(log)]
    /\ UNCHANGED disk
    /\ UNCHANGED notJ

\* manager.claim_job(job_id, worker_id)
ClaimJob(job_id, worker_id) ==
    /\ Len(log) < MaxLog
    /\ LET r == With(claim_job(log, job_id, worker_id, StoreNow(log)), LAMBDA v : v)
       IN  /\ log' = r.file
           /\ ret' = [op |-> "claim_job", raised |-> FALSE,
                      job_id |-> job_id, worker_id |-> worker_id,
                      value |-> r.ret]
    /\ UNCHANGED disk
    /\ UNCHANGED notJ

\* manager.complete_job(job_id, metrics)
CompleteJob(job_id, metrics) ==
    /\ Len(log) < MaxLog
    /\ LET r == With(complete_job(log, job_id, metrics, StoreNow(log)), LAMBDA v : v)
       IN  /\ log' = r.file
           /\ ret' = [op |-> "complete_job", raised |-> FALSE,
                      job_id |-> job_id, value |-> r.ret]
    /\ UNCHANGED disk
    /\ UNCHANGED notJ

\* manager.fail_job(job_id, error)
FailJob(job_id, error) ==
    /\ Len(log) < MaxLog
    /\ LET r == With(fail_job(log, job_id, error, StoreNow(log)), LAMBDA v : v)
       IN  /\ log' = r.file
           /\ ret' = [op |-> "fail_job", raised |-> FALSE,
                      job_id |-> job_id, value |-> r.ret]
    /\ UNCHANGED disk
    /\ UNCHANGED notJ

\* store.load_history()
LoadHistory ==
    /\ ret' = [op |-> "load_history", raised |-> load_history_raises(log),
               value |-> IF load_history_raises(log) THEN <<>>
                         ELSE load_history(log)]
    /\ UNCHANGED <<log, disk>>
    /\ UNCHANGED notJ

\* manager.get_pending_jobs(filter_func)
GetPendingJobs(filter_func) ==
    /\ ret' = [op |-> "get_pending_jobs", raised |-> load_history_raises(log),
               filter_func |-> filter_func,
               value |-> IF load_history_raises(log) THEN <<>>
                         ELSE get_pending_jobs_with(log, filter_func)]
    /\ UNCHANGED <<log, disk>>
    /\ UNCHANGED notJ

\* store.get_top_runs(n)
GetTopRuns(n) ==
    /\ ret' = [op |-> "get_top_runs", raised |-> FALSE, n |-> n,
               value |-> get_top_runs(log, n)]
    /\ UNCHANGED <<log, disk>>
    /\ UNCHANGED notJ

\* store.clean_artifacts(store.get_top_runs(n)), as main.py calls it.
CleanArtifacts(n, locked) ==
    /\ disk' = clean_artifacts(log, disk, get_top_runs(log, n), locked)
    /\ ret' = [op |-> "clean_artifacts", raised |-> FALSE, n |-> n,
               locked |-> locked, deleted |-> disk \ disk']
    /\ UNCHANGED log
    /\ UNCHANGED notJ

\* A run of the simulation writes an artifact file.
WriteArtifact(path) ==
    /\ path \notin disk
    /\ disk' = disk \cup {path}
    /\ ret' = [op |-> "write_artifact", raised |-> FALSE]
    /\ UNCHANGED log
    /\ UNCHANGED notJ

JNext ==
    \/ \E result \in RunData \cup InvalidRecords : AppendResult(result)
    \/ \E parameters \in {ParamsOf(FreshId(log)), EmptyDict} : CreateJob(parameters)
    \/ \E job_id \in Jobs, worker_id \in Workers : ClaimJob(job_id, worker_id)
    \/ \E job_id \in Jobs, metrics \in MetricsChoices : CompleteJob(job_id, metrics)
    \/ \E job_id \in Jobs : FailJob(job_id, "solver_failed")
    \/ LoadHistory
    \/ \E filter_func \in Filters : GetPendingJobs(filter_func)
    \/ \E n \in 0..MaxTop : GetTopRuns(n)
    \/ \E n \in 0..MaxTop, locked \in SUBSET Paths : CleanArtifacts(n, locked)
    \/ \E path \in Paths : WriteArtifact(path)

\* An empty log and an empty artifact directory.
InitJM ==
    /\ log = <<>>
    /\ disk = {}
    /\ ret = [op |-> "none"]
    /\ WIdle
    /\ MIdle

SpecJM == InitJM /\ [][JNext]_vars

(***************************************************************************)
(* Properties of the job lifecycle and of the log (SpecJM).                *)
(***************************************************************************)
\* The status of the latest record of a job, "None" for an unknown job.
StatusOf(file, j) == get_job_state(file, j)["status"]

\* The jobs of a file that create_job made: their first record is queued.
Created(file) ==
    {j \in IdsOf(file) : EventsOf(file, j)[1]["status"] = "queued"}

\* The step is a call of one of the four lifecycle operations.
LifecycleCall ==
    ret'.op \in {"create_job", "claim_job", "complete_job", "fail_job"}

\* C3: once the latest state of a created job is completed or failed, no
\* create_job, claim_job, complete_job or fail_job call changes its latest
\* status.
C3_NoExitFromTerminal ==
    [][LifecycleCall =>
          \A j \in Created(log) :
              StatusOf(log, j) \in {"completed", "failed"}
                  => StatusOf(log', j) = StatusOf(log, j)]_vars

\* C4: no lifecycle call takes a job whose latest state is queued directly
\* to completed or failed: from queued the latest status stays queued or
\* becomes running.
C4_QueuedOnlyToRunning ==
    [][LifecycleCall =>
          \A j \in Created(log) :
              StatusOf(log, j) = "queued"
                  => StatusOf(log', j) \in {"queued", "running"}]_vars

\* A record that has no status, or whose parameters is missing, empty or
\* not a mapping.
FailsValidation(result) ==
    \/ "status" \notin DOMAIN result
    \/ "parameters" \notin DOMAIN result
    \/ result["parameters"] = EmptyDict
    \/ result["parameters"] = NotADict

\* C8: an append (append_result, or create_job through it) of a record that
\* fails validation raises and leaves the log file as it was before the call.
C8_FailedAppendWritesNothing ==
    [][/\ (ret'.op = "append_result" /\ FailsValidation(ret'.arg))
            => (ret'.raised /\ log' = log)
       /\ (ret'.op \in {"append_result", "create_job"} /\ ret'.raised)
            => log' = log]_vars

C8_Witness ==
    /\ ret.op = "append_result"
    /\ ret.raised
    /\ "status" \notin DOMAIN ret.arg
    /\ log # <<>>

\* The call of the step wrote a record: an append or a create that did not
\* raise, or a claim, complete or fail that returned True.
Wrote(r) ==
    \/ r.op \in {"append_result", "create_job"} /\ ~r.raised
    \/ r.op \in {"claim_job", "complete_job", "fail_job"} /\ r.value

\* C9: the log is append-only.  Every operation leaves the lines already in
\* the log where and as they were; an operation that writes adds exactly one
\* line, a record, at the end (for append_result a record carrying every
\* field it was given); every other operation leaves the log unchanged.
C9_AppendOnly ==
    [][/\ Len(log') >= Len(log)
       /\ SubSeq(log', 1, Len(log)) = log
       /\ Wrote(ret') =>
             /\ Len(log') = Len(log) + 1
             /\ log'[Len(log')].kind = "json"
             /\ ret'.op = "append_result" =>
                   \A k \in DOMAIN ret'.arg :
                       log'[Len(log')].obj[k] = ret'.arg[k]
       /\ ~Wrote(ret') => log' = log]_vars

C9_Witness ==
    /\ Len(log) = MaxLog
    /\ ret.op = "clean_artifacts"
    /\ \E i \in 1..Len(log) : ArtifactsOf(log[i].obj) # {} /\ ArtifactsOf(log[i].obj) \cap disk = {}

(***************************************************************************)
(* Reading a log file as it may lie on disk: the records the job manager   *)
(* writes, among lines that are damaged.                                   *)
(***************************************************************************)
\* The longest log file of this specification.
MaxLen == 4

\* The record claim_job(j, w) writes on worker w's machine, and the record
\* complete_job(j) writes.
Claimed(j, w) == claim_job(<<QueuedEntry(j)>>, j, w, Now(w)).file[2]
Completed(j) == complete_job(<<QueuedEntry(j)>>, j, MetricsOk, NumWorkers + 1).file[2]

LogLines ==
    {QueuedEntry(1), Completed(1), CorruptLine, BlankLine, UndecodableLine}
    \cup {Claimed(1, w) : w \in Workers}
    \cup {Claimed(2, NumWorkers)}

\* Any log file of at most MaxLen of these lines.
InitLog ==
    /\ log \in UNION {[1..n -> LogLines] : n \in 0..MaxLen}
    /\ disk = {}
    /\ ret = [op |-> "none"]
    /\ WIdle
    /\ MIdle

\* verify_claim_leadership(store, job_id, worker_id); the exception of
\* store.load_history() is not caught.
VerifyClaimLeadership(job_id, worker_id) ==
    /\ ret' = [op |-> "verify_claim_leadership",
               raised |-> load_history_raises(log),
               job_id |-> job_id, worker_id |-> worker_id,
               value |-> IF load_history_raises(log) THEN FALSE
                         ELSE verify_claim_leadership(log, job_id, worker_id)]
    /\ UNCHANGED <<log, disk>>
    /\ UNCHANGED notJ

\* manager._get_all_latest_states()
GetAllLatestStates ==
    /\ ret' = [op |-> "latest_states", raised |-> load_history_raises(log),
               value |-> IF load_history_raises(log) THEN <<>>
                         ELSE get_all_latest_states(log).map]
    /\ UNCHANGED <<log, disk>>
    /\ UNCHANGED notJ

LogNext ==
    \/ LoadHistory
    \/ GetAllLatestStates
    \/ GetPendingJobs(NoFilter)
    \/ \E job_id \in Jobs, worker_id \in Workers :
          VerifyClaimLeadership(job_id, worker_id)

SpecLog == InitLog /\ [][LogNext]_vars

\* Line i of the file is a running record of job j.
IsRunningLine(file, i, j) ==
    /\ file[i].kind = "json"
    /\ Get(file[i].obj, "id", 0) = j
    /\ Get(file[i].obj, "status", "") = "running"

\* C2: verify_claim_leadership(log, job, w) is true exactly when the first
\* running record of the job, in the physical order of the log, carries
\* worker id w; so when the job has a running record, exactly one worker id
\* verifies, whatever the timestamps and the records after it.
C2_FirstRunningRecordWins ==
    /\ (ret.op = "verify_claim_leadership" /\ ~ret.raised) =>
          (ret.value <=>
              \E i \in 1..Len(log) :
                  /\ IsRunningLine(log, i, ret.job_id)
                  /\ log[i].obj["worker_id"] = ret.worker_id
                  /\ \A k \in 1..(i - 1) : ~IsRunningLine(log, k, ret.job_id))
    /\ ~load_history_raises(log) =>
          \A j \in Jobs :
              (\E i \in 1..Len(log) : IsRunningLine(log, i, j)) =>
                  Cardinality({w \in Workers :
                                  verify_claim_leadership(log, j, w)}) = 1

\* The first of two claims of the job carries the later timestamp, a
\* completed record follows, and the first claimant has verified.
C2_Witness ==
    /\ ret.op = "verify_claim_leadership"
    /\ ret.value
    /\ \E i, k, m \in 1..Len(log) :
          /\ i < k /\ k < m
          /\ IsRunningLine(log, i, ret.job_id)
          /\ IsRunningLine(log, k, ret.job_id)
          /\ log[i].obj["worker_id"] = ret.worker_id
          /\ log[k].obj["worker_id"] # ret.worker_id
          /\ log[i].obj["timestamp"] > log[k].obj["timestamp"]
          /\ log[m] = Completed(ret.job_id)

\* The records of the lines of a file that parse, in file order.
Parseable(file) ==
    LET lines == SelectSeq(file, LAMBDA l : l.kind = "json")
    IN  [k \in 1..Len(lines) |-> lines[k].obj]

\* C10: load_history on a log with damaged lines does not abort and returns
\* exactly the records of the lines that parse, in their physical order.
C10_ReadSkipsDamagedLines ==
    ret.op = "load_history" => (~ret.raised /\ ret.value = Parseable(log))

(***************************************************************************)
(* Two workers append to their own copies of one log; the copies are       *)
(* merged and the merged log is replayed.                                  *)
(***************************************************************************)
\* The most records a worker appends to its copy.
MaxMerge == 2

\* The log both copies start from.
Base == [j \in Jobs |-> QueuedEntry(j)]

Sides == {"A", "B"}
SideFile(side) == IF side = "A" THEN fileA ELSE fileB
SideWorker(side) == IF side = "A" THEN 1 ELSE 2
SetSideFile(side, file) ==
    IF side = "A" THEN fileA' = file /\ UNCHANGED fileB
    ELSE fileB' = file /\ UNCHANGED fileA

\* What a worker appended to its copy.
Appended(file) == SubSeq(file, Len(Base) + 1, Len(file))

InitMerge ==
    /\ fileA = Base
    /\ fileB = Base
    /\ JIdle
    /\ WIdle

\* manager.claim_job(job_id, worker_id) on the worker's copy
LocalClaim(side, job_id) ==
    /\ Len(Appended(SideFile(side))) < MaxMerge
    /\ SetSideFile(side, claim_job(SideFile(side), job_id, SideWorker(side),
                                   StoreNow(SideFile(side))).file)
    /\ UNCHANGED <<wvars, jvars>>

\* manager.complete_job(job_id, metrics) on the worker's copy
LocalComplete(side, job_id) ==
    /\ Len(Appended(SideFile(side))) < MaxMerge
    /\ SetSideFile(side, complete_job(SideFile(side), job_id, MetricsOk,
                                      StoreNow(SideFile(side))).file)
    /\ UNCHANGED <<wvars, jvars>>

\* manager.fail_job(job_id, error) on the worker's copy
LocalFail(side, job_id) ==
    /\ Len(Appended(SideFile(side))) < MaxMerge
    /\ SetSideFile(side, fail_job(SideFile(side), job_id, "solver_failed",
                                  StoreNow(SideFile(side))).file)
    /\ UNCHANGED <<wvars, jvars>>

\* The merges of two sequences that keep the order of each: sel[k] tells
\* whether place k of the merge takes the next line of a or of b.
Selectors(a, b) ==
    {sel \in [1..(Len(a) + Len(b)) -> BOOLEAN] :
        Cardinality({k \in 1..(Len(a) + Len(b)) : sel[k]}) = Len(a)}
Interleave(a, b, sel) ==
    [k \in 1..(Len(a) + Len(b)) |->
        IF sel[k] THEN a[Cardinality({m \in 1..k : sel[m]})]
        ELSE b[Cardinality({m \in 1..k : ~sel[m]})]]

\* manager._get_all_latest_states() on the log that merging the two copies
\* in the order sel leaves.
ReplayMerged(sel) ==
    /\ log' = Base \o Interleave(Appended(fileA), Appended(fileB), sel)
    /\ ret' = [op |-> "get_all_latest_states", raised |-> FALSE,
               a |-> Appended(fileA), b |-> Appended(fileB),
               value |-> get_all_latest_states(
                   Base \o Interleave(Appended(fileA), Appended(fileB), sel))]
    /\ UNCHANGED <<disk, wvars, mvars>>

MergeNext ==
    \/ \E side \in Sides, job_id \in Jobs : LocalClaim(side, job_id)
    \/ \E side \in Sides, job_id \in Jobs : LocalComplete(side, job_id)
    \/ \E side \in Sides, job_id \in Jobs : LocalFail(side, job_id)
    \/ \E sel \in Selectors(Appended(fileA), Appended(fileB)) : ReplayMerged(sel)

SpecMerge == InitMerge /\ [][MergeNext]_vars

\* The records of every job id come in the same order in both files.
SamePerJobOrder(file1, file2) ==
    \A j \in IdsOf(file1) \cup IdsOf(file2) :
        EventsOf(file1, j) = EventsOf(file2, j)

\* C7: replay determinism.  Every merge of the two workers' records that
\* places the records of each job id in the same relative order as the
\* merged log does gives the same latest-state map (job id -> last record),
\* whichever worker's records come first.
C7_ReplayDeterminism ==
    ret.op = "get_all_latest_states" =>
        \A sel \in Selectors(ret.a, ret.b) :
            SamePerJobOrder(Base \o Interleave(ret.a, ret.b, sel), log) =>
                get_all_latest_states(Base \o Interleave(ret.a, ret.b, sel)).map
                    = ret.value.map

\* Both workers appended as much as they can, and another merge with the
\* same order per job id puts their records in another order.
C7_Witness ==
    /\ ret.op = "get_all_latest_states"
    /\ Len(ret.a) = MaxMerge
    /\ Len(ret.b) = MaxMerge
    /\ \E sel \in Selectors(ret.a, ret.b) :
          /\ Base \o Interleave(ret.a, ret.b, sel) # log
          /\ SamePerJobOrder(Base \o Interleave(ret.a, ret.b, sel), log)

(***************************************************************************)
(* Properties of the replay and of the lifecycle calls.                    *)
(***************************************************************************)
\* The job ids of the record lines of a file.
LineIds(file) ==
    {file[i].obj["id"] : i \in {k \in 1..Len(file) : file[k].kind = "json"}}

\* The record of the last line of the file that carries job id j.
LastRecordOf(file, j) ==
    file[CHOOSE i \in 1..Len(file) :
            /\ file[i].kind = "json" /\ file[i].obj["id"] = j
            /\ \A k \in (i + 1)..Len(file) :
                   ~(file[k].kind = "json" /\ file[k].obj["id"] = j)].obj

\* C11: the latest-state map holds every job id of the log with the last
\* record of that id in physical order, whatever the timestamps; the map,
\* get_pending_jobs and claim verification leave the log unchanged, and two
\* consecutive replays return the same map.
C11_LatestIsLastInLogOrder ==
    [][/\ (ret'.op = "latest_states" /\ ~ret'.raised) =>
             /\ DOMAIN ret'.value = LineIds(log')
             /\ \A j \in LineIds(log') : ret'.value[j] = LastRecordOf(log', j)
       /\ ret'.op \in {"latest_states", "get_pending_jobs",
                       "verify_claim_leadership"} => log' = log
       /\ (ret.op = "latest_states" /\ ret'.op = "latest_states") =>
             ret'.value = ret.value]_vars

\* A replay of a log in which the last record of a job carries an earlier
\* timestamp than a record before it.
C11_Witness ==
    /\ ret.op = "latest_states"
    /\ ~ret.raised
    /\ \E i, k \in 1..Len(log) :
          /\ i < k
          /\ log[i].kind = "json" /\ log[k].kind = "json"
          /\ log[i].obj["id"] = log[k].obj["id"]
          /\ log[k].obj = ret.value[log[k].obj["id"]]
          /\ log[i].obj["timestamp"] > log[k].obj["timestamp"]

\* The status of the last record of job j in the file, "None" when the file
\* has no record of it.
LastStatusOf(file, j) ==
    IF j \in LineIds(file) THEN LastRecordOf(file, j)["status"] ELSE "None"

\* C12: claim_job on a job whose latest state is not queued (or that the log
\* does not know) returns False and writes nothing; on a queued job it
\* returns True and appends exactly one running record with the worker id.
C12_ClaimOnlyQueued ==
    [][ret'.op = "claim_job" =>
          IF LastStatusOf(log, ret'.job_id) = "queued"
          THEN /\ ret'.value
               /\ Len(log') = Len(log) + 1
               /\ SubSeq(log', 1, Len(log)) = log
               /\ log'[Len(log')].kind = "json"
               /\ log'[Len(log')].obj["id"] = ret'.job_id
               /\ log'[Len(log')].obj["status"] = "running"
               /\ log'[Len(log')].obj["worker_id"] = ret'.worker_id
          ELSE ~ret'.value /\ log' = log]_vars

\* A claim refused because another worker's running record is the latest.
C12_Witness ==
    /\ ret.op = "claim_job"
    /\ ~ret.value
    /\ LastStatusOf(log, ret.job_id) = "running"
    /\ LastRecordOf(log, ret.job_id)["worker_id"] # ret.worker_id

\* C13: every record create_job writes carries the parameters it was given,
\* and all records of one job id carry the same parameters, a non-empty
\* mapping.
C13_ParametersCarried ==
    [][/\ (ret'.op = "create_job" /\ ~ret'.raised) =>
             /\ log'[Len(log')].obj["id"] = ret'.value
             /\ log'[Len(log')].obj["parameters"] = ret'.arg
       /\ \A i, k \in 1..Len(log') :
             log'[i].obj["id"] = log'[k].obj["id"] =>
                 /\ log'[i].obj["parameters"] = log'[k].obj["parameters"]
                 /\ log'[i].obj["parameters"].type = "dict"
                 /\ DOMAIN log'[i].obj["parameters"].items # {}]_vars

\* Two jobs of different parameters, one of them claimed and completed.
C13_Witness ==
    /\ Len(log) = MaxLog
    /\ \E i, k \in 1..Len(log) :
          /\ log[i].obj["parameters"] # log[k].obj["parameters"]
          /\ log[i].obj["status"] = "queued"
          /\ log[k].obj["status"] = "queued"
    /\ \E i \in 1..Len(log) : log[i].obj["status"] \in {"running", "completed", "failed"}
    /\ ret.op \in {"claim_job", "complete_job", "fail_job"}
    /\ ret.value

\* The terminal status a call writes.
TerminalStatusOf(op) == IF op = "complete_job" THEN "completed" ELSE "failed"

\* C14: complete_job and fail_job on an id the log has no record of return
\* False and leave the log unchanged; on an id with a prior state they
\* return True and append exactly one record of the matching terminal status.
C14_TerminalCalls ==
    [][ret'.op \in {"complete_job", "fail_job"} =>
          IF ret'.job_id \in LineIds(log)
          THEN /\ ret'.value
               /\ Len(log') = Len(log) + 1
               /\ SubSeq(log', 1, Len(log)) = log
               /\ log'[Len(log')].obj["id"] = ret'.job_id
               /\ log'[Len(log')].obj["status"] = TerminalStatusOf(ret'.op)
          ELSE ~ret'.value /\ log' = log]_vars

\* A fail_job refused on a log that holds records of other jobs only.
C14_Witness ==
    /\ ret.op = "fail_job"
    /\ ~ret.value
    /\ log # <<>>
    /\ ret.job_id \notin LineIds(log)

\* C15: get_pending_jobs returns exactly the jobs whose latest state is
\* queued, each once and as its queued record, restricted to those the
\* filter accepts when one is given; no returned job has a running,
\* completed or failed record.
C15_PendingAreLatestQueued ==
    [][(ret'.op = "get_pending_jobs" /\ ~ret'.raised) =>
          LET pending == ret'.value
              wanted == {j \in LineIds(log') :
                            /\ LastStatusOf(log', j) = "queued"
                            /\ ret'.filter_func.given =>
                                  filter_func_of(ret'.filter_func,
                                                 LastRecordOf(log', j))}
          IN  /\ {pending[i]["id"] : i \in 1..Len(pending)} = wanted
              /\ Len(pending) = Cardinality(wanted)
              /\ \A i \in 1..Len(pending) :
                    /\ pending[i] = LastRecordOf(log', pending[i]["id"])
                    /\ \A k \in 1..Len(log') :
                          (log'[k].kind = "json"
                              /\ log'[k].obj["id"] = pending[i]["id"])
                              => log'[k].obj["status"] = "queued"]_vars

\* A filtered query on a log with two queued jobs and a claimed one, the
\* filter accepting one of the queued jobs.
C15_Witness ==
    /\ ret.op = "get_pending_jobs"
    /\ ret.filter_func.given
    /\ Len(ret.value) = 1
    /\ Cardinality({j \in LineIds(log) : LastStatusOf(log, j) = "queued"}) = 2
    /\ \E j \in LineIds(log) : LastStatusOf(log, j) # "queued"

\* The terminal records among the lines of a file.
TerminalLines(file) ==
    SelectSeq(file, LAMBDA l : l.kind = "json" /\ IsTerminal(l.obj))

LostRace(w, j) ==
    /\ pc[w] = "sync"
    /\ target[w] = j
    /\ w \in Claimants(remote, j)
    /\ w \notin executed[j]

\* The latest state of job j in the shared log is queued.
QueuedOnRemote(j) == get_job_state(remote, j)["status"] = "queued"

\* C17: a worker that lost a claim race keeps working: while another job is
\* queued in the shared log, the worker eventually completes a sync and
\* claims that job, unless the job left the queue in the meantime; nothing
\* is left uncommitted or unpushed in its clone after the lost verification.
C17_LoserClaimsNextJob ==
    \A w \in Workers : \A j \in Jobs : \A k \in Jobs \ {j} :
        (LostRace(w, j) /\ QueuedOnRemote(k))
            ~> (\/ (pc[w] = "commit_claim" /\ target[w] = k
                      /\ w \in Claimants(dirty[w], k))
                \/ ~QueuedOnRemote(k))

\* The worker that lost the race for one job has claimed another one, which
\* is still queued in the shared log.
C17_Witness ==
    \E w \in Workers : \E j, k \in Jobs :
        /\ j # k
        /\ w \in Claimants(remote, j)
        /\ w \notin executed[j]
        /\ executed[j] # {}
        /\ pc[w] = "commit_claim"
        /\ target[w] = k
        /\ w \in Claimants(dirty[w], k)
        /\ QueuedOnRemote(k)

\* C18 (as claimed): git_push_with_retry makes at most max_retries push
\* attempts; a failed push is followed by one pull-rebase, and then by a new
\* attempt or by the return of False; the worker goes on to verify its claim
\* only when a push has succeeded, and goes back to Sync when the attempts
\* are used up or a pull-rebase failed.
C18_PushWithRetry ==
    [][\A w \in Workers :
          /\ pc'[w] \in {"push_claim", "push_result"} =>
                attempts'[w] < max_retries
          /\ (pc[w] = "push_claim" /\ pc'[w] # pc[w]) =>
                \/ pc'[w] = "repull_claim" /\ File(w)' = File(w) /\ remote' = remote
                \/ /\ pc'[w] = "verify"
                   /\ remote' = upstream[w] \o ahead[w]
                   /\ upstream'[w] = remote'
                   /\ ahead'[w] = <<>>
          /\ (pc[w] = "repull_claim" /\ pc'[w] # pc[w]) =>
                \/ /\ pc'[w] = "push_claim"
                   /\ attempts'[w] = attempts[w] + 1
                   /\ upstream'[w] = remote
                \/ /\ pc'[w] = "sync"
                   /\ remote' = remote
                   /\ \/ attempts'[w] = max_retries /\ upstream'[w] = remote
                      \/ attempts'[w] = attempts[w] /\ upstream'[w] = upstream[w]]_vars

C20_SingleShotTerminates ==
    /\ \A w \in Workers : <>(loop[w] \/ pc[w] = "done")
    /\ [](\A w \in Workers : loop[w] => pc[w] # "done")
    /\ [][\A w \in Workers :
             (pc[w] # "done" /\ pc'[w] = "done") =>
                \/ pc[w] = "discover" /\ get_pending_jobs(File(w)) = <<>>
                \/ pc[w] \in {"push_result", "repull_result"}]_vars

\* The status of the record that an outcome of run_simulation calls for.
ExpectedStatus(outcome) ==
    IF outcome.kind = "metrics" /\ "error" \notin DOMAIN outcome.metrics
    THEN "completed" ELSE "failed"

\* C21: whatever run_simulation ends with for a verified claimant (metrics,
\* metrics with an error, an exception), the worker appends exactly one
\* terminal record for the job, completed when the metrics have no error and
\* failed otherwise, and goes on to commit the result.
C21_OutcomeBecomesTerminalRecord ==
    [][\A w \in Workers :
          pc[w] = "execute" =>
             /\ \A outcome \in Outcomes :
                   LET r == run_and_report(File(w), target[w], outcome, Now(w))
                   IN  /\ r.ret
                       /\ Len(r.file) = Len(File(w)) + 1
                       /\ SubSeq(r.file, 1, Len(File(w))) = File(w)
                       /\ r.file[Len(r.file)].kind = "json"
                       /\ r.file[Len(r.file)].obj["id"] = target[w]
                       /\ r.file[Len(r.file)].obj["status"] = ExpectedStatus(outcome)
             /\ pc'[w] # "execute" =>
                   /\ pc'[w] = "commit_result"
                   /\ \E outcome \in Outcomes :
                         File(w)' = run_and_report(File(w), target[w],
                                                   outcome, Now(w)).file]_vars

\* An execution that raised: the worker is at the commit of a failed record
\* that carries the exception.
C21_Witness ==
    \E w \in Workers :
        /\ pc[w] = "commit_result"
        /\ w \in executed[target[w]]
        /\ dirty[w] # <<>>
        /\ dirty[w][Len(dirty[w])].obj["id"] = target[w]
        /\ dirty[w][Len(dirty[w])].obj["status"] = "failed"
        /\ dirty[w][Len(dirty[w])].obj["error"] = "exception"

\* The positions of the completed and failed records in the records of a job.
TerminalsOf(job_events) ==
    {i \in 1..Len(job_events) : IsTerminal(job_events[i])}

\* Worker w holds the canonical claim among the records of a job, and the
\* claim comes before position i.
CanonicalBefore(job_events, w, i) ==
    \E k \in 1..(i - 1) :
        /\ job_events[k]["status"] = "running"
        /\ job_events[k]["worker_id"] = w
        /\ \A m \in 1..(k - 1) : job_events[m]["status"] # "running"

\* The lines of worker w's clone that the shared log may not hold yet.
Unpushed(w) == ahead[w] \o dirty[w]

RunningLines(file) ==
    SelectSeq(file, LAMBDA l : l.kind = "json" /\ l.obj["status"] = "running")

\* Job j is orphaned: the worker of its first running record in the shared
\* log was killed and the shared log holds no terminal record of the job.
Orphaned(j) ==
    /\ ~HasTerminal(remote, j)
    /\ \E w \in Workers : pc[w] = "killed" /\ verify_claim_leadership(remote, j, w)

MaxPressure == 2

Efficiencies == {5000, 9994, 9995, 9996}
Pressures == 0..MaxPressure

\* The metrics of runs: with an error (simulation_runner.py 265-268), with
\* both figures, of a dry run (no efficiency), and without a pressure drop.
ScoreMetrics ==
    {[error |-> "solver_failed"],
     [error |-> "meshing_failed", separation_efficiency |-> 9996, delta_p |-> 0]}
    \cup {[separation_efficiency |-> e, delta_p |-> dp] :
             e \in Efficiencies, dp \in Pressures}
    \cup {[delta_p |-> dp] : dp \in Pressures}
    \cup {[separation_efficiency |-> e] : e \in Efficiencies}

\* Three runs whose scores are to be compared.
InitScore ==
    /\ \E a, b, c \in ScoreMetrics :
          ret = [op |-> "runs", a |-> a, b |-> b, c |-> c]
    /\ log = <<>>
    /\ disk = {}
    /\ MIdle
    /\ WIdle

\* calculate_score(metrics) of each of the runs.
CalculateScore ==
    /\ ret.op = "runs"
    /\ ret' = [op |-> "calculate_score", a |-> ret.a, b |-> ret.b, c |-> ret.c,
               score_a |-> calculate_score(ret.a),
               score_b |-> calculate_score(ret.b),
               score_c |-> calculate_score(ret.c)]
    /\ UNCHANGED <<log, disk>>
    /\ UNCHANGED notJ

SpecScore == InitScore /\ [][CalculateScore]_vars

\* The figures of a run as calculate_score reads them.
EfficiencyOf(metrics) == Get(metrics, "separation_efficiency", 0)
PressureOf(metrics) == Get(metrics, "delta_p", Infinity)
HasError(metrics) == "error" \in DOMAIN metrics
MeetsTarget(metrics) ==
    ~HasError(metrics) /\ EfficiencyOf(metrics) >= TARGET_EFFICIENCY_PERCENT
BelowTarget(metrics) ==
    ~HasError(metrics) /\ EfficiencyOf(metrics) < TARGET_EFFICIENCY_PERCENT

\* C24: a run with an error scores below every run without one, and a run
\* without an error that is below the efficiency target scores below every
\* run without an error that meets it.
C24_ScoreOrdersGroups ==
    ret.op = "calculate_score" =>
        /\ (HasError(ret.a) /\ ~HasError(ret.b)) =>
              TupleLess(ret.score_a, ret.score_b)
        /\ (BelowTarget(ret.a) /\ MeetsTarget(ret.b)) =>
              TupleLess(ret.score_a, ret.score_b)

\* score(error) < score(efficiency 50) < score(efficiency 99.96), the run
\* below the target having the lower pressure drop.
C24_Witness ==
    /\ ret.op = "calculate_score"
    /\ HasError(ret.a)
    /\ EfficiencyOf(ret.b) = 5000 /\ PressureOf(ret.b) = 0 /\ ~HasError(ret.b)
    /\ EfficiencyOf(ret.c) = 9996 /\ PressureOf(ret.c) = MaxPressure
    /\ ~HasError(ret.c)
    /\ TupleLess(ret.score_a, ret.score_b)
    /\ TupleLess(ret.score_b, ret.score_c)

ScoreOf(run) == calculate_score(Get(run, "metrics", NoMetrics))

\* The ids whose last record in the file is completed.
CompletedIds(file) ==
    {j \in LineIds(file) : LastStatusOf(file, j) = "completed"}

\* C26 (as claimed): get_top_runs(n) returns at most n records, each the
\* last record of a distinct job whose last record is completed, in
\* non-increasing order of score, no completed job left out scoring higher
\* than a returned one.
C26_TopRunsAreCompletedLatest ==
    [][ret'.op = "get_top_runs" =>
          LET top == ret'.value
          IN  /\ Len(top) <= ret'.n
              /\ \A i \in 1..Len(top) :
                    /\ top[i]["id"] \in CompletedIds(log')
                    /\ top[i] = LastRecordOf(log', top[i]["id"])
              /\ \A i, k \in 1..Len(top) :
                    i < k => /\ top[i]["id"] # top[k]["id"]
                             /\ ~TupleLess(ScoreOf(top[i]), ScoreOf(top[k]))
              /\ \A j \in CompletedIds(log') :
                    (\A i \in 1..Len(top) : top[i]["id"] # j) =>
                        \A i \in 1..Len(top) :
                            ~TupleLess(ScoreOf(top[i]),
                                       ScoreOf(LastRecordOf(log', j)))]_vars

\* The artifact paths of the records of a list of runs.
ArtifactsOfRuns(runs) == UNION {ArtifactsOf(runs[i]) : i \in 1..Len(runs)}

\* C27 (as claimed): after clean_artifacts(get_top_runs(n)) every artifact
\* path of a run of the top n that was on disk is still on disk, also when
\* a run outside the top n refers to the same path.
C27_TopArtifactsKept ==
    [][ret'.op = "clean_artifacts" =>
          \A path \in ArtifactsOfRuns(get_top_runs(log, ret'.n)) :
              path \in disk => path \in disk']_vars

\* The ids of the records of the log that refer to an artifact path.
RefsOf(file, path) ==
    {file[i].obj["id"] :
        i \in {k \in 1..Len(file) :
                  file[k].kind = "json" /\ path \in ArtifactsOf(file[k].obj)}}

\* The ids of a list of runs.
IdsOfRuns(runs) == {runs[i]["id"] : i \in 1..Len(runs)}

\* Job j is terminal in the file and not one of the kept ids.
Evictable(file, keep_ids, j) ==
    j \notin keep_ids /\ LastStatusOf(file, j) \in {"completed", "failed"}

\* C28 (as claimed): after clean_artifacts(get_top_runs(n)) every artifact
\* path referred to only by jobs that are terminal and outside the top n is
\* absent from disk (when its removal does not fail), and the call removes
\* the artifacts of no other job.
C28_OnlyEvictableRemoved ==
    [][ret'.op = "clean_artifacts" =>
          With(IdsOfRuns(get_top_runs(log, ret'.n)),
               LAMBDA keep_ids :
                  \A path \in Paths :
                     /\ (/\ RefsOf(log, path) # {}
                         /\ path \notin ret'.locked
                         /\ \A j \in RefsOf(log, path) :
                               Evictable(log, keep_ids, j))
                           => path \notin disk'
                     /\ (path \in disk /\ path \notin disk') =>
                           \A j \in RefsOf(log, path) :
                               Evictable(log, keep_ids, j))]_vars

\* C29: clean_artifacts never raises because of the filesystem: paths that
\* are missing and paths whose removal raises OSError are skipped, every
\* other path of a run outside keep_runs is removed all the same, nothing
\* else is removed and the log is unchanged.
C29_CleanupToleratesFilesystem ==
    [][ret'.op = "clean_artifacts" =>
          /\ ~ret'.raised
          /\ log' = log
          /\ disk' \subseteq disk
          /\ ret'.deleted = disk \ disk'
          /\ With(IdsOfRuns(get_top_runs(log, ret'.n)),
                  LAMBDA keep_ids :
                     \A path \in Paths :
                        IF \E j \in RefsOf(log, path) : j \notin keep_ids
                        THEN /\ path \notin ret'.locked => path \notin disk'
                             /\ (path \in disk /\ path \in ret'.locked)
                                   => path \in disk'
                        ELSE path \in disk => path \in disk')]_vars

\* A cleanup that met a path it could not remove and still removed another.
C29_Witness ==
    /\ ret.op = "clean_artifacts"
    /\ ret.deleted # {}
    /\ \E path \in ret.locked \cap disk : RefsOf(log, path) # {}
    /\ ret.n = 0

(***************************************************************************)
(* LLMAgent.suggest_parameters and the providers it asks (llm_agent.py).   *)
(* One call of a provider's client is one step; the waits between the      *)
(* attempts (time.sleep) are finite and are not modelled.                  *)
(***************************************************************************)
\* max_retries of GoogleGenAIProvider.generate and OpenAIProvider.generate.
provider_max_retries == 3

\* GoogleGenAIProvider.fallback_models.
fallback_models == <<"gemini-2.5-flash", "gemini-3.0-flash", "gemini-1.5-flash">>

\* The model names an agent is built with: the default, which is one of
\* the fallback models, and one that is not.
ModelNames == {"gemini-2.5-flash", "gemini-2.5-pro"}

\* models_to_try: model_name, then the fallback models, without duplicates.
models_to_try(model_name) ==
    <<model_name>> \o SelectSeq(fallback_models, LAMBDA m : m # model_name)

GoogleGenAIProvider(model_name) == [kind |-> "google", model_name |-> model_name]
OpenAIProvider == [kind |-> "openai", model_name |-> "gpt-4o"]

\* self.providers after LLMAgent.__init__: the Google provider when it has
\* a key and its library, then the OpenAI provider likewise.
ProviderLists ==
    {<<>>, <<OpenAIProvider>>}
    \cup {<<GoogleGenAIProvider(m)>> : m \in ModelNames}
    \cup {<<GoogleGenAIProvider(m), OpenAIProvider>> : m \in ModelNames}

\* The text of a reply: a JSON object, a JSON array, text that is not JSON
\* even after the repair, and no text at all (response.text is None).
ObjectText(data) == [kind |-> "object", data |-> data]
ArrayText == [kind |-> "array", data |-> <<>>]
GarbageText == [kind |-> "garbage", data |-> <<>>]
NoneText == [kind |-> "none", data |-> <<>>]
NoReply == [kind |-> "no_reply", data |-> <<>>]

Texts ==
    {ObjectText([parameters |-> [num_bins |-> 2]]),
     ObjectText([reasoning |-> "converged", stop_optimization |-> TRUE]),
     ObjectText([stop_optimization |-> FALSE, parameters |-> [num_bins |-> 3]]),
     ObjectText([reasoning |-> "unsure"]),
     ArrayText, GarbageText, NoneText}

\* _parse_json_safely(text): the value of the JSON text, or an exception.
parse_json_safely(text) ==
    IF text.kind = "object"
    THEN [raised |-> FALSE, type |-> "dict", data |-> text.data]
    ELSE IF text.kind = "array"
    THEN [raised |-> FALSE, type |-> "list", data |-> <<>>]
    ELSE [raised |-> TRUE, type |-> "none", data |-> <<>>]

\* The current parameters and the metrics of the last run.
CurrentParams == {<<>>, [num_bins |-> 1], [num_bins |-> 3, insert_length_mm |-> 5000]}
LastMetrics ==
    {[error |-> "solver_failed"], [separation_efficiency |-> 5000, delta_p |-> 1]}

\* Values random.randint draws for two keys of the random parameters (all
\* of num_bins, the ends of the range of the revolutions); the keys drawn
\* with random.uniform are set in the same way.
Draws ==
    {[num_bins |-> b, number_of_complete_revolutions |-> r] :
        b \in 1..3, r \in {1, 4}}

\* _generate_random_parameters(current_params, constraints): a copy of the
\* current parameters with the drawn keys set.
generate_random_parameters(current_params, draw) ==
    [k \in DOMAIN current_params \cup DOMAIN draw |->
        IF k \in DOMAIN draw THEN draw[k] ELSE current_params[k]]

\* What suggest_parameters returns when the generation raised or the reply
\* has no parameters: random parameters when the last run had an error,
\* the current parameters themselves when it had none.
on_failure(current_params, metrics, draw) ==
    IF "error" \in DOMAIN metrics
    THEN [value |-> generate_random_parameters(current_params, draw),
          source |-> "random"]
    ELSE [value |-> current_params, source |-> "current"]

\* suggest_parameters from the text _generate returned.
on_reply(text, current_params, metrics, draw) ==
    With(parse_json_safely(text),
         LAMBDA parsed :
            IF parsed.raised \/ parsed.type # "dict"
            THEN on_failure(current_params, metrics, draw)
            ELSE IF Get(parsed.data, "stop_optimization", FALSE) = TRUE
            THEN [value |-> [stop_optimization |-> TRUE], source |-> "stop"]
            ELSE IF "parameters" \in DOMAIN parsed.data
            THEN [value |-> parsed.data["parameters"], source |-> "llm"]
            ELSE on_failure(current_params, metrics, draw))

\* The agent returns.
Returned(r, reply, outcome) ==
    [r EXCEPT !.pc = "returned", !.reply = reply,
              !.result = outcome.value, !.source = outcome.source]

\* An agent and the arguments of one call of suggest_parameters.
InitLLM ==
    /\ \E providers \in ProviderLists :
       \E current_params \in CurrentParams :
       \E metrics \in LastMetrics :
          ret = [op |-> "agent", pc |-> "call", providers |-> providers,
                 current_params |-> current_params, metrics |-> metrics,
                 history |-> 0, provider |-> 0, model |-> 0, attempt |-> 0,
                 calls |-> 0, reply |-> NoReply, result |-> <<>>,
                 source |-> "none"]
    /\ log = <<>>
    /\ disk = {}
    /\ MIdle
    /\ WIdle

\* suggest_parameters up to the first call of a provider: the last run is
\* added to the history, and without a provider the random parameters are
\* returned.
SuggestParameters ==
    /\ ret.op = "agent"
    /\ \E draw \in Draws :
          ret' = With([ret EXCEPT !.op = "suggest_parameters",
                                  !.history = IF DOMAIN ret.current_params # {}
                                              THEN @ + 1 ELSE @],
                      LAMBDA r :
                         IF r.providers = <<>>
                         THEN Returned(r, NoReply,
                                 [value |-> generate_random_parameters(
                                               r.current_params, draw),
                                  source |-> "random"])
                         ELSE [r EXCEPT !.pc = "generate", !.provider = 1,
                                        !.model = 1, !.attempt = 0])
    /\ UNCHANGED <<log, disk>>
    /\ UNCHANGED notJ

\* The provider raised: _generate goes on to the next provider, and raises
\* after the last one, which suggest_parameters catches.
ProviderRaised(r, draw) ==
    IF r.provider < Len(r.providers)
    THEN [r EXCEPT !.provider = @ + 1, !.model = 1, !.attempt = 0]
    ELSE Returned(r, NoReply, on_failure(r.current_params, r.metrics, draw))

\* The provider is done with a model: the Google provider goes on to the
\* next model to try, and raises after the last one; the OpenAI provider
\* has one model.
NextModel(r, draw) ==
    IF /\ r.providers[r.provider].kind = "google"
       /\ r.model < Len(models_to_try(r.providers[r.provider].model_name))
    THEN [r EXCEPT !.model = @ + 1, !.attempt = 0]
    ELSE ProviderRaised(r, draw)

\* The attempt failed and the provider tries the model again, up to
\* max_retries attempts.
NextAttempt(r, draw) ==
    IF r.attempt + 1 < provider_max_retries
    THEN [r EXCEPT !.attempt = @ + 1]
    ELSE NextModel(r, draw)

Generating == ret.op = "suggest_parameters" /\ ret.pc = "generate"

\* The client returns a text: generate and _generate return it, and
\* suggest_parameters returns what it makes of it.
ApiReplies ==
    /\ Generating
    /\ \E text \in Texts : \E draw \in Draws :
          ret' = Returned([ret EXCEPT !.calls = @ + 1], text,
                          on_reply(text, ret.current_params, ret.metrics, draw))
    /\ UNCHANGED <<log, disk>>
    /\ UNCHANGED notJ

\* The client raises a rate limit error (429): the provider waits and
\* tries the model again.
ApiRateLimited ==
    /\ Generating
    /\ \E draw \in Draws :
          ret' = NextAttempt([ret EXCEPT !.calls = @ + 1], draw)
    /\ UNCHANGED <<log, disk>>
    /\ UNCHANGED notJ

\* The client raises another error: the Google provider leaves the model,
\* the OpenAI provider waits and tries again.
ApiFails ==
    /\ Generating
    /\ \E draw \in Draws :
          ret' = IF ret.providers[ret.provider].kind = "google"
                 THEN NextModel([ret EXCEPT !.calls = @ + 1], draw)
                 ELSE NextAttempt([ret EXCEPT !.calls = @ + 1], draw)
    /\ UNCHANGED <<log, disk>>
    /\ UNCHANGED notJ

LLMNext == SuggestParameters \/ ApiReplies \/ ApiRateLimited \/ ApiFails

SpecLLM == InitLLM /\ [][LLMNext]_vars

\* The calls of a client that one call of suggest_parameters can make.
AttemptsOf(provider) ==
    IF provider.kind = "google"
    THEN Len(models_to_try(provider.model_name)) * provider_max_retries
    ELSE provider_max_retries

RECURSIVE AttemptsBound(_)
AttemptsBound(providers) ==
    IF providers = <<>> THEN 0
    ELSE AttemptsOf(Head(providers)) + AttemptsBound(Tail(providers))

\* The call got no parameters: there was no provider, every provider
\* raised, or the reply is not a stop signal and has no parameters.
NoParametersObtained(r) ==
    \/ r.providers = <<>>
    \/ r.reply.kind = "no_reply"
    \/ /\ r.reply.kind # "object"
    \/ /\ r.reply.kind = "object"
       /\ Get(r.reply.data, "stop_optimization", FALSE) # TRUE
       /\ "parameters" \notin DOMAIN r.reply.data

\* C30: suggest_parameters makes a bounded number of calls of the
\* providers, and when there is no provider, every provider fails or the
\* reply has no parameters, it returns randomly generated parameters and
\* not the current parameters.
C30_SuggestionDegradesToRandom ==
    ret.op = "suggest_parameters" =>
        /\ ret.calls <= AttemptsBound(ret.providers)
        /\ (ret.pc = "returned" /\ NoParametersObtained(ret)) =>
              ret.source = "random"

(***************************************************************************)
(* validate_parameters (parameter_validator.py).  Lengths are in tenths of *)
(* a millimetre.                                                           *)
(***************************************************************************)
\* A value of a parameter: a number, or a value float() rejects with a
\* ValueError or a TypeError (text that is no number, None).
Number(n) == [type |-> "number", v |-> n]
NotANumber == [type |-> "text", v |-> 0]
\* The key is not in the mapping.
Absent == [type |-> "absent", v |-> 0]

\* float(params.get(key, default))
float_get(params, key, default) ==
    IF key \notin DOMAIN params THEN [raised |-> FALSE, value |-> default]
    ELSE [raised |-> params[key].type # "number", value |-> params[key].v]

\* The outcomes of validate_parameters: (True, None), and (False, message)
\* for each of the messages.
Valid == [is_valid |-> TRUE, error |-> "none", raised |-> FALSE]
Invalid(error) == [is_valid |-> FALSE, error |-> error, raised |-> FALSE]

\* A validator that checks the insert length before the geometry.
validate_parameters_length_first(params) ==
    With(<<float_get(params, "tube_od_mm", 320),
           float_get(params, "tube_wall_mm", 15),
           float_get(params, "helix_path_radius_mm", 18),
           float_get(params, "helix_profile_radius_mm", 18),
           float_get(params, "helix_void_profile_radius_mm", 10),
           float_get(params, "insert_length_mm", 500)>>,
         LAMBDA f :
            IF \E i \in 1..6 : f[i].raised THEN Invalid("type")
            ELSE IF f[6].value <= 0 THEN Invalid("length")
            ELSE IF f[1].value <= 0 \/ f[2].value <= 0 THEN Invalid("tube")
            ELSE IF f[3].value <= 0 \/ f[4].value <= 0 \/ f[5].value <= 0
            THEN Invalid("helix")
            ELSE IF f[4].value >= f[3].value THEN Invalid("singularity")
            ELSE IF f[5].value >= f[4].value THEN Invalid("wall")
            ELSE IF 2 * (f[3].value + f[4].value) > f[1].value - 2 * f[2].value
            THEN Invalid("fit")
            ELSE Valid)

\* validate_parameters(params): the five dimensions are converted first,
\* the checks follow in the order of the code, and the insert length is
\* converted and checked last.  A ValueError or TypeError of a conversion
\* is caught and reported.  helix_outer_radius > tube_od / 2.0 - tube_wall
\* is compared after doubling both sides.
validate_parameters(params) ==
    With(<<float_get(params, "tube_od_mm", 320),
           float_get(params, "tube_wall_mm", 15),
           float_get(params, "helix_path_radius_mm", 18),
           float_get(params, "helix_profile_radius_mm", 18),
           float_get(params, "helix_void_profile_radius_mm", 10),
           float_get(params, "insert_length_mm", 500)>>,
         LAMBDA f :
            IF \E i \in 1..5 : f[i].raised THEN Invalid("type")
            ELSE IF f[1].value <= 0 \/ f[2].value <= 0 THEN Invalid("tube")
            ELSE IF f[3].value <= 0 \/ f[4].value <= 0 \/ f[5].value <= 0
            THEN Invalid("helix")
            ELSE IF f[4].value >= f[3].value THEN Invalid("singularity")
            ELSE IF f[5].value >= f[4].value THEN Invalid("wall")
            ELSE IF 2 * (f[3].value + f[4].value) > f[1].value - 2 * f[2].value
            THEN Invalid("fit")
            ELSE IF f[6].raised THEN Invalid("type")
            ELSE IF f[6].value <= 0 THEN Invalid("length")
            ELSE Valid)

\* The keys validate_parameters reads, and the values a mapping gives them.
ValidatedKeys ==
    {"tube_od_mm", "tube_wall_mm", "helix_path_radius_mm",
     "helix_profile_radius_mm", "helix_void_profile_radius_mm",
     "insert_length_mm"}

ParameterChoices ==
    [tube_od_mm : {Absent, Number(320), Number(0), NotANumber},
     tube_wall_mm : {Absent, Number(15), Number(-15)},
     helix_path_radius_mm :
        {Absent, Number(18), Number(30), Number(100), Number(0), NotANumber},
     helix_profile_radius_mm :
        {Absent, Number(18), Number(20), Number(25), Number(50), Number(-20)},
     helix_void_profile_radius_mm :
        {Absent, Number(10), Number(15), Number(20), Number(0)},
     insert_length_mm : {Absent, Number(500), Number(-100), NotANumber}]

\* The mapping with the keys the choice gives a value to.
MappingOf(choice) ==
    [k \in {key \in ValidatedKeys : choice[key] # Absent} |-> choice[k]]

\* A parameter mapping to validate.
InitValidate ==
    /\ \E choice \in ParameterChoices :
          ret = [op |-> "params", params |-> MappingOf(choice)]
    /\ log = <<>>
    /\ disk = {}
    /\ MIdle
    /\ WIdle

\* validate_parameters(params)
ValidateParameters ==
    /\ ret.op = "params"
    /\ ret' = [op |-> "validate_parameters", params |-> ret.params,
               outcome |-> validate_parameters(ret.params)]
    /\ UNCHANGED <<log, disk>>
    /\ UNCHANGED notJ

SpecValidate == InitValidate /\ [][ValidateParameters]_vars

\* The baseline configuration of the tests (test_parameter_validator.py
\* setUp).
base_params ==
    [tube_od_mm |-> Number(320), tube_wall_mm |-> Number(15),
     helix_path_radius_mm |-> Number(18),
     helix_profile_radius_mm |-> Number(18),
     helix_void_profile_radius_mm |-> Number(10),
     insert_length_mm |-> Number(500)]

\* C32: validate_parameters accepts the baseline configuration of the
\* tests, and the mapping that sets none of its keys.
C32_BaselineAccepted ==
    (ret.op = "validate_parameters" /\ ret.params \in {base_params, <<>>})
        => ret.outcome.is_valid

\* The value of a key that is a number or is absent.
ValueOf(params, key, default) == float_get(params, key, default).value
IsNumber(params, key) == ~float_get(params, key, 0).raised

\* The conditions under which a mapping whose values are numbers is to be
\* rejected, in the order of the checks, and the outcome of each check.
FailingChecks(params) ==
    With(<<ValueOf(params, "tube_od_mm", 320),
           ValueOf(params, "tube_wall_mm", 15),
           ValueOf(params, "helix_path_radius_mm", 18),
           ValueOf(params, "helix_profile_radius_mm", 18),
           ValueOf(params, "helix_void_profile_radius_mm", 10),
           ValueOf(params, "insert_length_mm", 500)>>,
         LAMBDA v :
            <<v[1] <= 0 \/ v[2] <= 0,
              v[3] <= 0 \/ v[4] <= 0 \/ v[5] <= 0,
              v[4] > v[3],
              v[5] >= v[4],
              2 * (v[3] + v[4]) > v[1] - 2 * v[2],
              v[6] <= 0>>)
CheckNames == <<"tube", "helix", "singularity", "wall", "fit", "length">>

\* The first check that fails, 0 when none does.
FirstFailing(params) ==
    With(FailingChecks(params),
         LAMBDA failing :
            IF \E i \in 1..6 : failing[i]
            THEN CHOOSE i \in 1..6 :
                    failing[i] /\ \A k \in 1..(i - 1) : ~failing[k]
            ELSE 0)

\* The profile radius and the path radius are equal: the case of C32.
EqualRadii(params) ==
    ValueOf(params, "helix_profile_radius_mm", 18)
        = ValueOf(params, "helix_path_radius_mm", 18)

int_get(params, key, default) ==
    IF key \notin DOMAIN params THEN [raised |-> FALSE, value |-> default]
    ELSE [raised |-> params[key].type # "number", value |-> params[key].v]

\* Parameters of a run: the defaults, radii the validator accepts, and the
\* same with a number of bins that is a number and one that is not.
GoodRadii ==
    [helix_path_radius_mm |-> Number(30), helix_profile_radius_mm |-> Number(20)]
SimulationParams ==
    {<<>>, GoodRadii,
     [helix_path_radius_mm |-> Number(30), helix_profile_radius_mm |-> Number(20),
      num_bins |-> Number(2)],
     [helix_path_radius_mm |-> Number(30), helix_profile_radius_mm |-> Number(20),
      num_bins |-> NotANumber]}

NoResult == [kind |-> "none", error |-> "none"]
ErrorResult(error) == [kind |-> "error", error |-> error]
MetricsResult(metrics) == [kind |-> "metrics", error |-> metrics]
RaisedResult(exception) == [kind |-> "raised", error |-> exception]

Called(r, name, ok) ==
    [r EXCEPT !.calls = Append(@, [name |-> name, ok |-> ok])]
\* return of run_simulation
Return(r, result) == [r EXCEPT !.pc = "returned", !.result = result]
\* the metrics are set and the visualization follows
ToVisualization(r, result) == [r EXCEPT !.pc = "visualization", !.result = result]

\* The arguments of a call and the state of the environment.
InitSimulation ==
    /\ \E params \in SimulationParams :
       \E dry_run, skip_cfd, reuse_mesh, has_tools \in BOOLEAN :
          ret = [op |-> "run_simulation", pc |-> "validate", params |-> params,
                 dry_run |-> dry_run, skip_cfd |-> skip_cfd,
                 reuse_mesh |-> reuse_mesh, has_tools |-> has_tools,
                 calls |-> <<>>, result |-> NoResult]
    /\ log = <<>>
    /\ disk = {}
    /\ MIdle
    /\ WIdle

At(stage) == ret.op = "run_simulation" /\ ret.pc = stage
RunsCfd(r) == ~r.dry_run /\ ~r.skip_cfd

\* 0. Validate Parameters
ValidateStage ==
    /\ At("validate")
    /\ ret' = IF validate_parameters(ret.params).is_valid
              THEN [ret EXCEPT !.pc = "geometry"]
              ELSE Return(ret, ErrorResult("invalid_parameters"))
    /\ UNCHANGED <<log, disk>>
    /\ UNCHANGED notJ

\* 1. Generate Geometry
GeometryStage ==
    /\ At("geometry")
    /\ IF ~ret.dry_run /\ ~ret.reuse_mesh
       THEN \E success \in BOOLEAN :
               ret' = IF success
                      THEN [Called(ret, "generate_stl", TRUE)
                               EXCEPT !.pc = "mesh_config"]
                      ELSE Return(Called(ret, "generate_stl", FALSE),
                                  ErrorResult("geometry_generation_failed"))
       ELSE ret' = [ret EXCEPT !.pc = "mesh_config"]
    /\ UNCHANGED <<log, disk>>
    /\ UNCHANGED notJ

\* 2. Update Mesh Config: the check of the tools, then the block mesh and
\* the location in the mesh when the bounds of the geometry are known.
MeshConfigStage ==
    /\ At("mesh_config")
    /\ IF RunsCfd(ret)
       THEN IF ~ret.has_tools
            THEN ret' = Return(ret, ErrorResult("environment_missing_tools"))
            ELSE IF ~ret.reuse_mesh
            THEN \E bounds \in BOOLEAN :
                    ret' = [(IF bounds
                             THEN Called(Called(ret, "get_bounds", TRUE),
                                         "update_blockMesh", TRUE)
                             ELSE Called(ret, "get_bounds", FALSE))
                               EXCEPT !.pc = "prepare"]
            ELSE ret' = [ret EXCEPT !.pc = "prepare"]
       ELSE ret' = [ret EXCEPT !.pc = "prepare"]
    /\ UNCHANGED <<log, disk>>
    /\ UNCHANGED notJ

\* 3. Run Simulation, up to the meshing: prepare_case and bin_config, whose
\* int() is not in a try; or the metrics of a run without CFD.
PrepareStage ==
    /\ At("prepare")
    /\ ret' = IF RunsCfd(ret)
              THEN IF int_get(ret.params, "num_bins", 1).raised
                   THEN Return(Called(ret, "prepare_case", TRUE),
                               RaisedResult("ValueError"))
                   ELSE [Called(ret, "prepare_case", TRUE) EXCEPT !.pc = "meshing"]
              ELSE IF ret.skip_cfd
              THEN ToVisualization(ret, MetricsResult("skipped"))
              ELSE ToVisualization(ret, MetricsResult("dry_run"))
    /\ UNCHANGED <<log, disk>>
    /\ UNCHANGED notJ

\* run_meshing, unless the mesh is reused
MeshingStage ==
    /\ At("meshing")
    /\ IF ~ret.reuse_mesh
       THEN \E success \in BOOLEAN :
               ret' = IF success
                      THEN [Called(ret, "run_meshing", TRUE) EXCEPT !.pc = "solver"]
                      ELSE ToVisualization(Called(ret, "run_meshing", FALSE),
                                           ErrorResult("meshing_failed"))
       ELSE ret' = [ret EXCEPT !.pc = "solver"]
    /\ UNCHANGED <<log, disk>>
    /\ UNCHANGED notJ

\* run_solver
SolverStage ==
    /\ At("solver")
    /\ \E success \in BOOLEAN :
          ret' = IF success
                 THEN [Called(ret, "run_solver", TRUE) EXCEPT !.pc = "metrics"]
                 ELSE ToVisualization(Called(ret, "run_solver", FALSE),
                                      ErrorResult("solver_failed"))
    /\ UNCHANGED <<log, disk>>
    /\ UNCHANGED notJ

\* run_particle_tracking and get_metrics
MetricsStage ==
    /\ At("metrics")
    /\ ret' = ToVisualization(
                 Called(Called(ret, "run_particle_tracking", TRUE),
                        "get_metrics", TRUE),
                 MetricsResult("metrics"))
    /\ UNCHANGED <<log, disk>>
    /\ UNCHANGED notJ

\* 4. Generate Visualization, and the return of the metrics
VisualizationStage ==
    /\ At("visualization")
    /\ ret' = IF ~ret.dry_run
              THEN Return(Called(ret, "generate_visualization", TRUE), ret.result)
              ELSE Return(ret, ret.result)
    /\ UNCHANGED <<log, disk>>
    /\ UNCHANGED notJ

SimulationNext ==
    \/ ValidateStage \/ GeometryStage \/ MeshConfigStage \/ PrepareStage
    \/ MeshingStage \/ SolverStage \/ MetricsStage \/ VisualizationStage

SpecSimulation == InitSimulation /\ [][SimulationNext]_vars

\* The calls of a driver function in calls, and whether one failed.
CallsOf(r, name) == SelectSeq(r.calls, LAMBDA c : c.name = name)
WasCalled(r, name) == CallsOf(r, name) # <<>>
Succeeded(r, name) == \E i \in 1..Len(r.calls) : r.calls[i] = [name |-> name, ok |-> TRUE]
Failed(r, name) == \E i \in 1..Len(r.calls) : r.calls[i] = [name |-> name, ok |-> FALSE]

\* C31: run_simulation returns metrics or a typed error, and runs its
\* stages in order: invalid parameters return an error before the geometry
\* is generated; the solver runs only if the meshing did not fail, else the
\* error is meshing_failed; the metrics are extracted only if the solver
\* succeeded, else the error is solver_failed; missing tools return
\* environment_missing_tools before any meshing.
C31_StagesInOrder ==
    ret.op = "run_simulation" =>
        /\ ret.pc = "returned" => ret.result.kind \in {"metrics", "error"}
        /\ ~validate_parameters(ret.params).is_valid =>
              /\ ret.calls = <<>>
              /\ ret.pc = "returned" => ret.result = ErrorResult("invalid_parameters")
        /\ WasCalled(ret, "run_solver") => ~Failed(ret, "run_meshing")
        /\ (Failed(ret, "run_meshing") /\ ret.pc = "returned") =>
              ret.result = ErrorResult("meshing_failed")
        /\ WasCalled(ret, "get_metrics") => Succeeded(ret, "run_solver")
        /\ (Failed(ret, "run_solver") /\ ret.pc = "returned") =>
              ret.result = ErrorResult("solver_failed")
        /\ (RunsCfd(ret) /\ ~ret.has_tools) =>
              /\ ~WasCalled(ret, "run_meshing")
              /\ ~WasCalled(ret, "update_blockMesh")
              /\ ~WasCalled(ret, "prepare_case")
              /\ ret.pc = "returned" =>
                    ret.result.error \in {"invalid_parameters",
                                          "geometry_generation_failed",
                                          "environment_missing_tools"}

(***************************************************************************)
(* FoamDriver.scale_mesh (foam_driver.py) on the STL files of a case.      *)
(***************************************************************************)
\* The most conversions of one file.
MaxScalings == 3

StlNames == {"corkscrew_fluid.stl", "test.stl"}
\* constant/triSurface/<stl_filename>, and the temporary file next to it
\* that the tests expect the command to write.
stl_rel_path(stl_filename) == <<"constant/triSurface", stl_filename>>
TempPath(stl_filename) == <<"constant/triSurface", "temp", stl_filename>>

\* The content of a file: a mesh scaled a number of times, whole or cut
\* short; or no file.
Mesh(scalings) == [exists |-> TRUE, scalings |-> scalings, whole |-> TRUE]
PartOf(mesh) == [mesh EXCEPT !.whole = FALSE]
NoFile == [exists |-> FALSE, scalings |-> 0, whole |-> FALSE]

\* What surfaceMeshConvert input output -scale factor can leave at its
\* output path: the scaled mesh when it succeeds; when it fails, what was
\* there or a part of the scaled mesh; it fails when it cannot read the
\* input.
ConvertOutcomes(input, output) ==
    IF input.exists /\ input.whole
    THEN {[ok |-> TRUE, output |-> Mesh(input.scalings + 1)],
          [ok |-> FALSE, output |-> output],
          [ok |-> FALSE, output |-> PartOf(Mesh(input.scalings + 1))]}
    ELSE {[ok |-> FALSE, output |-> output]}

\* scale_mesh(stl_filename, scale_factor): the command reads and writes
\* the same path, and its result is returned.
scale_mesh(files, stl_filename, outcome) ==
    [result |-> outcome.ok,
     cmd |-> [input |-> stl_rel_path(stl_filename), output |-> stl_rel_path(stl_filename)],
     files |-> [files EXCEPT ![stl_filename] = outcome.output]]

\* A case directory with the STL files the geometry stage wrote.
InitScale ==
    /\ \E files \in [StlNames -> {NoFile, Mesh(0)}] :
          ret = [op |-> "case", files |-> files]
    /\ log = <<>>
    /\ disk = {}
    /\ MIdle
    /\ WIdle

ScaleMesh ==
    /\ ret.op \in {"case", "scale_mesh"}
    /\ \E stl_filename \in StlNames :
          /\ ret.files[stl_filename].scalings < MaxScalings
          /\ \E outcome \in ConvertOutcomes(ret.files[stl_filename],
                                            ret.files[stl_filename]) :
                ret' = With(scale_mesh(ret.files, stl_filename, outcome),
                            LAMBDA r :
                               [op |-> "scale_mesh", files |-> r.files,
                                stl_filename |-> stl_filename,
                                before |-> ret.files[stl_filename],
                                cmd |-> r.cmd, result |-> r.result])
    /\ UNCHANGED <<log, disk>>
    /\ UNCHANGED notJ

SpecScale == InitScale /\ [][ScaleMesh]_vars

\* C38: scale_mesh has the command write a temporary file and replaces the
\* destination only after the command succeeded: when the command fails it
\* returns false and the destination is what it was.
C38_ScaleMeshUsesTempFile ==
    ret.op = "scale_mesh" =>
        /\ ret.cmd.input = stl_rel_path(ret.stl_filename)
        /\ ret.cmd.output = TempPath(ret.stl_filename)
        /\ ~ret.result => ret.files[ret.stl_filename] = ret.before

(***************************************************************************)
(* The optimization loop of main.py.  A parameter mapping has a radius in  *)
(* units of 0.00001 mm and a number of bins.                               *)
(***************************************************************************)
\* The most replacements of visited parameters in one session.
MaxDedup == 3

Radii == {180000, 180004, 200000, 250000}
Mapping(radius, bins) == [helix_path_radius_mm |-> radius, num_bins |-> bins]

\* round(v, 4) of a float
round4(v) == (v + 5) \div 10

\* get_params_hash(params): the digest of the JSON text of the mapping with
\* its floats rounded to four places; two mappings have the same digest
\* when these texts are the same.
get_params_hash(params) ==
    [k \in DOMAIN params |->
        IF k = "helix_path_radius_mm" THEN round4(params[k]) ELSE params[k]]

\* dict.update
dict_update(params, new) ==
    [k \in DOMAIN params \cup DOMAIN new |->
        IF k \in DOMAIN new THEN new[k] ELSE params[k]]

\* What suggest_parameters returns: the stop signal, new values of some
\* parameters, or the current parameters themselves.
StopSignal == [stop_optimization |-> TRUE]
Suggestions ==
    {StopSignal, <<>>}
    \cup {[helix_path_radius_mm |-> v] : v \in Radii}
    \cup {[num_bins |-> 2]}

\* agent._generate_random_parameters(current_params, CONSTRAINTS)
MainDraws == {Mapping(v, b) : v \in {200000, 250000}, b \in 1..2}

\* The parameters of the runs of the log at the start.
PastParameters == {Mapping(180000, 1), Mapping(180004, 1), Mapping(250000, 2)}

\* main() up to the loop: the initial parameters, and the visited set of
\* the history.
InitMain ==
    /\ \E past \in SUBSET PastParameters :
       \E max_iterations \in 0..2 :
          ret = [op |-> "main", pc |-> "loop", i |-> 0,
                 max_iterations |-> max_iterations,
                 current_params |-> Mapping(180000, 1),
                 loaded |-> {get_params_hash(q) : q \in past},
                 visited_params |-> {get_params_hash(q) : q \in past},
                 history |-> Cardinality(past),
                 dedups |-> 0, simulated |-> <<>>]
    /\ log = <<>>
    /\ disk = {}
    /\ MIdle
    /\ WIdle

InLoop == ret.op = "main" /\ ret.pc = "loop"

\* if not infinite_mode and i >= max_iterations: break
LoopExit ==
    /\ InLoop
    /\ ret.i >= ret.max_iterations
    /\ ret' = [ret EXCEPT !.pc = "finished"]
    /\ UNCHANGED <<log, disk>>
    /\ UNCHANGED notJ

\* A loop whose replacement of visited parameters goes on to the
\* simulation instead of the next pass.
replace_visited_no_continue(r, suggestion, draw) ==
    [r EXCEPT !.dedups = @ + 1,
              !.simulated = Append(@, [params |-> r.current_params,
                                       visited |-> r.visited_params]),
              !.pc = "crashed"]

\* The pass of the loop on visited parameters: a suggestion is asked for
\* (the agent adds the current parameters to the history it shares with
\* main), the stop signal ends the loop, the suggestion updates the
\* parameters, random parameters replace them when they are visited again,
\* and the loop continues without counting the pass.
replace_visited(r, suggestion, draw) ==
    With([r EXCEPT !.dedups = @ + 1, !.history = @ + 1],
         LAMBDA a :
            IF "stop_optimization" \in DOMAIN suggestion
            THEN [a EXCEPT !.pc = "finished"]
            ELSE With(dict_update(a.current_params, suggestion),
                      LAMBDA updated :
                         [a EXCEPT !.current_params =
                            IF get_params_hash(updated) \in a.visited_params
                            THEN generate_random_parameters(updated, draw)
                            ELSE updated]))

Deduplicate ==
    /\ InLoop
    /\ ret.i < ret.max_iterations
    /\ get_params_hash(ret.current_params) \in ret.visited_params
    /\ ret.dedups < MaxDedup
    /\ \E suggestion \in Suggestions : \E draw \in MainDraws :
          ret' = replace_visited(ret, suggestion, draw)
    /\ UNCHANGED <<log, disk>>
    /\ UNCHANGED notJ

\* The pass of the loop on parameters not visited: their hash is added to
\* the visited set and run_simulation is called.  The five values it
\* returns are unpacked into two names, which raises ValueError and ends
\* main.
Simulate ==
    /\ InLoop
    /\ ret.i < ret.max_iterations
    /\ get_params_hash(ret.current_params) \notin ret.visited_params
    /\ ret' = [ret EXCEPT
                 !.visited_params = @ \cup {get_params_hash(ret.current_params)},
                 !.simulated = Append(@, [params |-> ret.current_params,
                                          visited |-> ret.visited_params]),
                 !.pc = "crashed"]
    /\ UNCHANGED <<log, disk>>
    /\ UNCHANGED notJ

MainNext == LoopExit \/ Deduplicate \/ Simulate

SpecMain == InitMain /\ [][MainNext]_vars

\* C37: no parameter mapping whose hash is in the visited set, loaded from
\* the history or added in the session, is passed to run_simulation, so no
\* hash is simulated twice; visited parameters are replaced by a
\* suggestion first, and the replacement does not count as an iteration.
C37_NoParametersSimulatedTwice ==
    [][ret.op = "main" =>
         /\ ret.loaded \subseteq ret'.visited_params
         /\ ret.visited_params \subseteq ret'.visited_params
         /\ \A k \in 1..Len(ret'.simulated) :
               /\ get_params_hash(ret'.simulated[k].params)
                     \notin ret'.simulated[k].visited
               /\ ret'.loaded \subseteq ret'.simulated[k].visited
               /\ get_params_hash(ret'.simulated[k].params) \in ret'.visited_params
               /\ \A n \in 1..(k - 1) :
                     get_params_hash(ret'.simulated[n].params)
                        # get_params_hash(ret'.simulated[k].params)
         /\ ret'.dedups > ret.dedups =>
               /\ get_params_hash(ret.current_params) \in ret.visited_params
               /\ ret'.i = ret.i
               /\ ret'.simulated = ret.simulated
         /\ ret'.simulated # ret.simulated =>
               /\ ret'.dedups = ret.dedups
               /\ Len(ret'.simulated) = Len(ret.simulated) + 1]_vars

\* The defaults were visited in an earlier session, were replaced, and the
\* replacement was simulated in the pass the replacement did not consume.
C37_Witness ==
    /\ ret.op = "main"
    /\ ret.dedups > 0
    /\ ret.i = 0
    /\ ret.max_iterations = 1
    /\ Len(ret.simulated) = 1
    /\ get_params_hash(Mapping(180000, 1)) \in ret.simulated[1].visited

(***************************************************************************)
(* The clone and the shared log under failing pulls and pushes.            *)
(***************************************************************************)
\* A step in which the pull of worker w failed: the Sync step that starts
\* over, or the pull inside git_push_with_retry that makes it give up
\* without counting an attempt.
PullFailed(w) ==
    \/ pc[w] = "sync" /\ pc'[w] = "sync"
    \/ /\ pc[w] \in {"repull_claim", "repull_result"}
       /\ pc'[w] # pc[w]
       /\ attempts'[w] = attempts[w]

\* C33: a pull --rebase that fails is aborted: the worker's local log, its
\* unpushed commits and its working tree are after the failure exactly what
\* they were before the pull, with no line of a half-done merge among them.
C33_FailedPullLeavesClone ==
    [][\A w \in Workers :
          PullFailed(w) =>
              /\ upstream'[w] = upstream[w]
              /\ ahead'[w] = ahead[w]
              /\ dirty'[w] = dirty[w]
              /\ \A k \in 1..Len(File(w)') : File(w)'[k] # CorruptLine]_vars

\* A worker back at Sync with unpushed commits and no counted attempt, the
\* remote having moved: its push was given up on a pull that failed.
C33_Witness ==
    \E w \in Workers :
        /\ pc[w] = "sync"
        /\ attempts[w] = 0
        /\ ahead[w] # <<>>
        /\ dirty[w] = <<>>
        /\ upstream[w] # remote

\* Sequence a is the beginning of sequence b.
IsPrefixOf(a, b) == Len(a) <= Len(b) /\ SubSeq(b, 1, Len(a)) = a

C35_CanonicalClaimIsExecuted ==
    \A j \in Jobs : \A w \in Workers :
        verify_claim_leadership(remote, j, w) =>
            \/ w \in executed[j]
            \/ target[w] = j /\ pc[w] = "verify"

(***************************************************************************)
(* Jobs created, claimed and finished in two clones of one log, and the    *)
(* clones merged.                                                          *)
(***************************************************************************)
\* str(uuid.uuid4()) on the machine of a side: an id that no record of any
\* clone carries.
uuid4(side) == NumJobs + 2 * Len(Appended(SideFile(side))) + SideWorker(side)

\* manager.create_job(parameters) on the worker's copy
LocalCreate(side) ==
    /\ Len(Appended(SideFile(side))) < MaxMerge
    /\ SetSideFile(side, create_job(SideFile(side), ParamsOf(uuid4(side)),
                                    uuid4(side), StoreNow(SideFile(side))).file)
    /\ UNCHANGED <<wvars, jvars>>

\* The ids a caller can name: those of the records of either copy.
KnownIds == IdsOf(fileA) \cup IdsOf(fileB)

CreateNext ==
    \/ \E side \in Sides : LocalCreate(side)
    \/ \E side \in Sides, job_id \in KnownIds : LocalClaim(side, job_id)
    \/ \E side \in Sides, job_id \in KnownIds : LocalComplete(side, job_id)
    \/ \E side \in Sides, job_id \in KnownIds : LocalFail(side, job_id)
    \/ \E sel \in Selectors(Appended(fileA), Appended(fileB)) : ReplayMerged(sel)

SpecCreate == InitMerge /\ [][CreateNext]_vars

\* Every id of the file has one queued record, the first record of the id.
OneQueuedFirst(file) ==
    \A id \in IdsOf(file) :
        With(EventsOf(file, id),
             LAMBDA job_events :
                /\ job_events[1]["status"] = "queued"
                /\ \A i \in 2..Len(job_events) :
                      job_events[i]["status"] \in
                          {"running", "completed", "failed"})

\* C36: in the log of each clone and in the log their merge leaves, every
\* job id has exactly one queued record, the one create_job wrote under a
\* fresh id, and that record precedes every running, completed and failed
\* record of the id.
C36_OneQueuedRecordFirst ==
    /\ OneQueuedFirst(fileA)
    /\ OneQueuedFirst(fileB)
    /\ OneQueuedFirst(log)

\* The merged log holds a job one clone created and claimed, and a job of
\* the common log that the other clone claimed and finished.
C36_Witness ==
    /\ \E id \in IdsOf(log) \ Jobs : Len(EventsOf(log, id)) >= 2
    /\ \E j \in Jobs : HasTerminal(log, j) /\ Claimants(log, j) # {}

=============================================================================
